---- MODULE Spec2Model ----
(***************************************************************************)
(* Chunk-analysis orchestrator (python_api/main.py) and call-context       *)
(* aggregation engine (python_api/modules/cache_manager.py), with the      *)
(* reasoning-engine adapter (python_api/modules/llm_analyzer.py).          *)
(*                                                                         *)
(* Numbers.  scam_likelihood is a float in the code; here it is counted in *)
(* thousandths (0 .. 1000), which represents exactly every value the code  *)
(* can produce from integer confidences (0.3*(confidence/100) is           *)
(* 3*confidence thousandths, the decay 0.1 is 100 thousandths).  Stress    *)
(* levels are counted in hundredths.  Binary floating-point rounding is    *)
(* not modelled.                                                           *)
(*                                                                         *)
(* Document.  The per-call JSON file is the record store[c].  The keys the *)
(* code writes but never reads back for a decision (created_at,            *)
(* last_updated, timestamp, transcript_snippet, the per-chunk              *)
(* dominant_emotions labels, scam_type, and the two feedback keys that     *)
(* load_context recomputes on every load) are left out of the record.      *)
(* store has one more entry, for the file a request without a call id      *)
(* would name; the code never opens it.                                    *)
(***************************************************************************)
EXTENDS Integers, Sequences, FiniteSets, TLC

(***************************************************************************)
(* Bounds of the model.                                                    *)
(***************************************************************************)
\* requests accepted in one behaviour of Spec and SpecFault
MaxSubmits == 2
\* requests accepted in one behaviour of SpecLong (one call, long history)
MaxLongChunks == 12

(***************************************************************************)
(* Program constants.                                                      *)
(***************************************************************************)
\* full scale of scam_likelihood (1.0) in thousandths
LikelihoodMax == 1000
\* decay of a non-scam chunk (0.1) in thousandths
LikelihoodDecay == 100
\* weight of a scam chunk: 0.3 * (confidence / 100), in thousandths per point
ScamWeight == 3
\* confidence clamp of the reasoning-engine adapter
ConfidenceMax == 100
\* timeline keeps the last 20 events
TimelineCap == 20
\* a speaker profile keeps the last 10 appearances
ProfileWindow == 10
\* risk thresholds 0.8 and 0.5 in thousandths
RiskHigh == 800
RiskMedium == 500
\* high_confidence_scam_detection threshold
HighConfidence == 80
\* stability needs 3 stress samples
StabilityWindow == 3
\* variance thresholds 0.2 and 0.1: sum((3x-S)^2) over 3 samples in hundredths
\* is 27 * 10^4 * variance
VarianceUnstable == 54000
VarianceVariable == 27000
\* the summary calls a call a likely scam above 0.6, in thousandths
LikelyScam == 600
\* the summary assumes 10-second chunks
ChunkSeconds == 10
\* the prompt shows the last 3 previous analyses
FeedbackWindow == 3
\* the escalation pattern looks at the last 3 confidences
PatternWindow == 3
\* trend thresholds on the percentage of scam verdicts
TrendHigh == 70
TrendModerate == 40
TrendPotential == 15
\* a red flag is consistent from 2 occurrences
ConsistentCount == 2

(***************************************************************************)
(* Identifiers and input domains.                                          *)
(***************************************************************************)
CallIds == {"a", "b"}
\* concurrently open HTTP requests to /analyze-audio
Requests == {"r1", "r2"}
ChunkNumbers == {1, 2}
Speakers == {"S0", "S1"}

Min(x, y) == IF x < y THEN x ELSE y
Max(x, y) == IF x > y THEN x ELSE y

\* s[-n:] of Python for n > 0
LastN(s, n) == IF Len(s) <= n THEN s ELSE SubSeq(s, Len(s) - n + 1, Len(s))

\* x in list
InList(x, s) == \E i \in 1..Len(s) : s[i] = x

\* the empty mapping {}
EmptyMap == [x \in {} |-> 0]

(***************************************************************************)
(* Reasoning-engine adapter: llm_analyzer.py.                              *)
(* An engine outcome is what the `ollama run` subprocess did: it timed     *)
(* out, exited non-zero, printed text without a JSON object, or printed a  *)
(* JSON object whose fields may be missing, out of range or of the wrong   *)
(* type.                                                                   *)
(***************************************************************************)
EngineOutcome(kind, has_is_scam, is_scam, conf_kind, confidence, has_flags, red_flags) ==
    [kind |-> kind, has_is_scam |-> has_is_scam, is_scam |-> is_scam,
     conf_kind |-> conf_kind, confidence |-> confidence,
     has_flags |-> has_flags, red_flags |-> red_flags]

EngineTimeout == EngineOutcome("timeout", FALSE, FALSE, "missing", 0, FALSE, <<>>)
EngineFailed == EngineOutcome("failed", FALSE, FALSE, "missing", 0, FALSE, <<>>)
EngineText == EngineOutcome("text", FALSE, FALSE, "missing", 0, FALSE, <<>>)
EngineJson(is_scam, confidence, red_flags) ==
    EngineOutcome("json", TRUE, is_scam, "num", confidence, TRUE, red_flags)

\* the string _query_ollama returns: "" on timeout, failure or exception
query_ollama(outcome) ==
    IF outcome.kind \in {"timeout", "failed"}
    THEN [outcome EXCEPT !.kind = "empty"]
    ELSE outcome

\* the verdict dictionaries of the adapter
Verdict(is_scam, confidence, red_flags, outcome) ==
    [is_scam |-> is_scam, confidence |-> confidence, red_flags |-> red_flags,
     outcome |-> outcome]

\* variant for C34: the fallback verdict carries no red flag
FallbackWithoutFlag == Verdict(FALSE, 0, <<>>, "parsing_error")
\* the fallback of _parse_llm_response
ParseFallback == Verdict(FALSE, 0, <<"llm_parsing_error">>, "parsing_error")
\* the except branch of analyze
AnalyzeError == Verdict(FALSE, 0, <<>>, "error")

\* variant for C3: the clamp left out
ClampUnbounded(confidence) == confidence
\* max(0, min(100, confidence))
ClampConfidence(confidence) == Max(0, Min(ConfidenceMax, confidence))

\* _parse_llm_response; "raised" stands for an exception that it does not
\* catch (TypeError of min/max on a non-numeric confidence)
parse_llm_response(response) ==
    IF response.kind # "json"
    THEN ParseFallback
    ELSE IF response.conf_kind = "text"
    THEN Verdict(FALSE, 0, <<>>, "raised")
    ELSE Verdict(IF response.has_is_scam THEN response.is_scam ELSE FALSE,
                 ClampConfidence(IF response.conf_kind = "num"
                                 THEN response.confidence ELSE 0),
                 IF response.has_flags THEN response.red_flags ELSE <<>>,
                 "parsed")

\* _build_analysis_prompt raises when it calls .get on the scam_keywords of
\* the transcription result and that is the list [] of the transcriber's
\* failure result instead of a dictionary; every other access is a .get
\* with a default on a dictionary
PromptRaises(analysis_data) == "transcription" \in analysis_data.errors

\* the reasoning engine is queried only when the prompt could be built
EngineInvoked(analysis_data, outcome) ==
    IF PromptRaises(analysis_data) THEN "none" ELSE outcome.kind

\* LLMAnalyzer.analyze: build the prompt, query, parse, and the catch-all
\* default
analyze(analysis_data, outcome) ==
    IF PromptRaises(analysis_data)
    THEN AnalyzeError
    ELSE LET parsed == parse_llm_response(query_ollama(outcome))
         IN  IF parsed.outcome = "raised" THEN AnalyzeError ELSE parsed

(***************************************************************************)
(* Context store: cache_manager.py.                                        *)
(***************************************************************************)
\* load_context returns {} for "no context"
EmptyContext == [exists |-> FALSE]

InitialOverall ==
    [scam_likelihood |-> 0, persistent_patterns |-> <<>>,
     escalation_trend |-> "stable", risk_level |-> "low"]

\* the structure update_context builds for a new call
InitialContext ==
    [exists |-> TRUE, chunks |-> <<>>, overall |-> InitialOverall,
     speaker_profiles |-> EmptyMap, timeline |-> <<>>]

\* the chunk_summary of update_context
ChunkSummary(chunk_data, llm) ==
    [chunk_number |-> chunk_data.chunk_number,
     ai_voice_detected |-> chunk_data.ai_voice,
     suspicious_background |-> chunk_data.suspicious,
     num_speakers |-> chunk_data.num_speakers,
     scam_analysis |-> [is_scam |-> llm.is_scam, confidence |-> llm.confidence,
                        red_flags |-> llm.red_flags]]

\* number of chunks whose red_flags contain the flag
FlagCount(flag, chunks) ==
    Cardinality({i \in 1..Len(chunks) : InList(flag, chunks[i].scam_analysis.red_flags)})

\* variant for C4: one occurrence is enough
PromoteAtOne(flag, chunks) == FlagCount(flag, chunks) >= 1
\* variant for C13: the flag must be in the two most recent chunks
PromoteAdjacent(flag, chunks) ==
    /\ Len(chunks) >= 2
    /\ InList(flag, chunks[Len(chunks)].scam_analysis.red_flags)
    /\ InList(flag, chunks[Len(chunks) - 1].scam_analysis.red_flags)
\* variant for C33: a flag is promoted at its third chunk
PromoteAtThree(flag, chunks) == FlagCount(flag, chunks) >= 3
\* flag_count >= 2
PromoteFlag(flag, chunks) == FlagCount(flag, chunks) >= 2

\* the loop over the new verdict's red flags
RECURSIVE PromoteFlags(_, _, _)
PromoteFlags(patterns, flags, chunks) ==
    IF flags = <<>>
    THEN patterns
    ELSE LET flag == Head(flags)
             next == IF ~InList(flag, patterns) /\ PromoteFlag(flag, chunks)
                     THEN Append(patterns, flag) ELSE patterns
         IN  PromoteFlags(next, Tail(flags), chunks)

\* variant for C10: a non-scam chunk weighs as much as a scam chunk
LikelihoodSymmetric(likelihood, llm) ==
    IF llm.is_scam
    THEN Min(likelihood + ScamWeight * llm.confidence, LikelihoodMax)
    ELSE Max(likelihood - ScamWeight * llm.confidence, 0)
\* variant for C2: the floor max(..., 0.0) left out
LikelihoodNoFloor(likelihood, llm) ==
    IF llm.is_scam
    THEN Min(likelihood + ScamWeight * llm.confidence, LikelihoodMax)
    ELSE likelihood - LikelihoodDecay
\* variant for C35: a fail-soft verdict leaves the likelihood alone
LikelihoodSkipsFailures(likelihood, llm) ==
    IF llm.is_scam
    THEN Min(likelihood + ScamWeight * llm.confidence, LikelihoodMax)
    ELSE IF llm.outcome \in {"parsing_error", "error"}
    THEN likelihood
    ELSE Max(likelihood - LikelihoodDecay, 0)
\* the asymmetric ratchet of _update_overall_analysis
NextLikelihood(likelihood, llm) ==
    IF llm.is_scam
    THEN Min(likelihood + ScamWeight * llm.confidence, LikelihoodMax)
    ELSE Max(likelihood - LikelihoodDecay, 0)

\* variant for C11: no medium level
RiskTwoLevels(likelihood) ==
    IF likelihood > RiskHigh THEN "high" ELSE "low"
\* the risk level of a scam likelihood
RiskLevel(likelihood) ==
    IF likelihood > RiskHigh THEN "high"
    ELSE IF likelihood > RiskMedium THEN "medium"
    ELSE "low"

\* variant for C12: a plateau counts as a rise or a fall
EscalationNonStrict(previous, chunks) ==
    IF Len(chunks) >= 3
    THEN LET n == Len(chunks)
             c0 == chunks[n - 2].scam_analysis.confidence
             c1 == chunks[n - 1].scam_analysis.confidence
             c2 == chunks[n].scam_analysis.confidence
         IN  IF c2 >= c1 /\ c1 >= c0 THEN "escalating"
             ELSE IF c2 <= c1 /\ c1 <= c0 THEN "de-escalating"
             ELSE "stable"
    ELSE previous
\* the escalation trend over the last three chunks; chunks holds the new one
EscalationTrend(previous, chunks) ==
    IF Len(chunks) >= 3
    THEN LET n == Len(chunks)
             c0 == chunks[n - 2].scam_analysis.confidence
             c1 == chunks[n - 1].scam_analysis.confidence
             c2 == chunks[n].scam_analysis.confidence
         IN  IF c2 > c1 /\ c1 > c0 THEN "escalating"
             ELSE IF c2 < c1 /\ c1 < c0 THEN "de-escalating"
             ELSE "stable"
    ELSE previous

\* variant for C5: persistent_patterns rebuilt from the new verdict alone
OverallForgetsPatterns(overall, chunks, llm) ==
    [scam_likelihood |-> NextLikelihood(overall.scam_likelihood, llm),
     persistent_patterns |-> PromoteFlags(<<>>, llm.red_flags, chunks),
     risk_level |-> RiskLevel(NextLikelihood(overall.scam_likelihood, llm)),
     escalation_trend |-> EscalationTrend(overall.escalation_trend, chunks)]
\* _update_overall_analysis; chunks already holds the new chunk
update_overall_analysis(overall, chunks, llm) ==
    [scam_likelihood |-> NextLikelihood(overall.scam_likelihood, llm),
     persistent_patterns |->
         PromoteFlags(overall.persistent_patterns, llm.red_flags, chunks),
     risk_level |-> RiskLevel(NextLikelihood(overall.scam_likelihood, llm)),
     escalation_trend |-> EscalationTrend(overall.escalation_trend, chunks)]

NewProfile ==
    [appearances |-> 0, dominant_emotions |-> <<>>, stress_levels |-> <<>>,
     emotional_stability |-> "stable"]

\* 27 * 10^4 * population variance of three stress levels in hundredths
Variance27(s) ==
    LET total == s[1] + s[2] + s[3]
    IN  (3 * s[1] - total) * (3 * s[1] - total)
        + (3 * s[2] - total) * (3 * s[2] - total)
        + (3 * s[3] - total) * (3 * s[3] - total)

\* variant for C32: a variance above the lower threshold is always "variable"
StabilityTwoLevels(previous, stress_levels) ==
    IF Len(stress_levels) >= StabilityWindow
    THEN IF Variance27(LastN(stress_levels, StabilityWindow)) > VarianceVariable
         THEN "variable" ELSE "stable"
    ELSE previous
\* the emotional_stability update of _update_speaker_profiles
Stability(previous, stress_levels) ==
    IF Len(stress_levels) >= StabilityWindow
    THEN LET v == Variance27(LastN(stress_levels, StabilityWindow))
         IN  IF v > VarianceUnstable THEN "unstable"
             ELSE IF v > VarianceVariable THEN "variable"
             ELSE "stable"
    ELSE previous

\* variant for C7: only dominant_emotions is cut
StressUncut(stress_levels, emotions_len) == stress_levels
\* the window of a profile's stress_levels, cut when dominant_emotions is cut
StressWindow(stress_levels, emotions_len) ==
    IF emotions_len > ProfileWindow
    THEN LastN(stress_levels, ProfileWindow) ELSE stress_levels

\* the body of the loop of _update_speaker_profiles for one speaker
update_profile(profile, emotions) ==
    LET de == Append(profile.dominant_emotions, emotions.top_emotion)
        sl == Append(profile.stress_levels, emotions.stress_level)
        cut_de == IF Len(de) > ProfileWindow THEN LastN(de, ProfileWindow) ELSE de
        cut_sl == StressWindow(sl, Len(de))
    IN  [appearances |-> profile.appearances + 1,
         dominant_emotions |-> cut_de,
         stress_levels |-> cut_sl,
         emotional_stability |-> Stability(profile.emotional_stability, cut_sl)]

\* _update_speaker_profiles
update_speaker_profiles(profiles, emotion_data) ==
    [s \in (DOMAIN profiles) \cup (DOMAIN emotion_data) |->
        IF s \in DOMAIN emotion_data
        THEN update_profile(IF s \in DOMAIN profiles THEN profiles[s] ELSE NewProfile,
                            emotion_data[s])
        ELSE profiles[s]]

TimelineEvent(chunk, event, a, b) ==
    [chunk |-> chunk, event |-> event, details |-> <<a, b>>]

\* variant for C36: only a scam verdict yields the high-confidence event
EventsOfScamOnly(chunks, cs) ==
    (IF cs.scam_analysis.is_scam /\ cs.scam_analysis.confidence > HighConfidence
     THEN <<TimelineEvent(cs.chunk_number, "high_confidence_scam_detection",
                          cs.scam_analysis.confidence, 0)>>
     ELSE <<>>)
    \o (IF cs.ai_voice_detected
        THEN <<TimelineEvent(cs.chunk_number, "ai_voice_detected", 0, 0)>>
        ELSE <<>>)
    \o (IF Len(chunks) > 1 /\ cs.num_speakers # chunks[Len(chunks) - 1].num_speakers
        THEN <<TimelineEvent(cs.chunk_number, "speaker_change",
                             chunks[Len(chunks) - 1].num_speakers, cs.num_speakers)>>
        ELSE <<>>)
\* the events _update_timeline appends for one chunk; chunks holds the chunk
NewEvents(chunks, cs) ==
    (IF cs.scam_analysis.confidence > HighConfidence
     THEN <<TimelineEvent(cs.chunk_number, "high_confidence_scam_detection",
                          cs.scam_analysis.confidence, 0)>>
     ELSE <<>>)
    \o (IF cs.ai_voice_detected
        THEN <<TimelineEvent(cs.chunk_number, "ai_voice_detected", 0, 0)>>
        ELSE <<>>)
    \o (IF Len(chunks) > 1 /\ cs.num_speakers # chunks[Len(chunks) - 1].num_speakers
        THEN <<TimelineEvent(cs.chunk_number, "speaker_change",
                             chunks[Len(chunks) - 1].num_speakers, cs.num_speakers)>>
        ELSE <<>>)

\* variant for C6: the newest events are dropped instead of the oldest
KeepFirst(timeline) ==
    IF Len(timeline) > TimelineCap THEN SubSeq(timeline, 1, TimelineCap) ELSE timeline
\* timeline[-20:] when longer than 20
TruncateTimeline(timeline) ==
    IF Len(timeline) > TimelineCap THEN LastN(timeline, TimelineCap) ELSE timeline

\* variant for C31: the timeline is cut before the new events are appended
TruncateBeforeAppend(timeline, chunks, cs) ==
    TruncateTimeline(timeline) \o NewEvents(chunks, cs)
\* _update_timeline
update_timeline(timeline, chunks, cs) ==
    TruncateTimeline(timeline \o NewEvents(chunks, cs))

\* variant for C9: a chunk replaces the earlier chunk of the same number
ReplaceSameNumber(chunks, cs) ==
    IF \E i \in 1..Len(chunks) : chunks[i].chunk_number = cs.chunk_number
    THEN [i \in 1..Len(chunks) |->
             IF chunks[i].chunk_number = cs.chunk_number THEN cs ELSE chunks[i]]
    ELSE Append(chunks, cs)
\* context["chunks"].append(chunk_summary)
AddChunk(chunks, cs) == Append(chunks, cs)

\* update_context from the appended chunk to the document that is saved
AppendChunk(context, chunk_data, llm) ==
    LET cs == ChunkSummary(chunk_data, llm)
        chunks == AddChunk(context.chunks, cs)
    IN  [exists |-> TRUE,
         chunks |-> chunks,
         overall |-> update_overall_analysis(context.overall, chunks, llm),
         speaker_profiles |->
             update_speaker_profiles(context.speaker_profiles, chunk_data.emotions),
         timeline |-> update_timeline(context.timeline, chunks, cs)]

(***************************************************************************)
(* Store operations on the persisted documents.  st[c] is the file         *)
(* cache/<c>.json, NoFile when it does not exist.  read_ok is FALSE when   *)
(* opening or parsing an existing file raises (unreadable or corrupt).     *)
(***************************************************************************)
NoFile == EmptyContext
NoCallId == ""

\* variant for C20: a failed load returns a freshly initialised context
LoadInitialises(st, call_id, read_ok) ==
    IF call_id = NoCallId THEN EmptyContext
    ELSE IF ~st[call_id].exists \/ ~read_ok THEN InitialContext
    ELSE st[call_id]
\* CacheManager.load_context
load_context(st, call_id, read_ok) ==
    IF call_id = NoCallId THEN EmptyContext
    ELSE IF ~st[call_id].exists THEN EmptyContext
    ELSE IF ~read_ok THEN EmptyContext
    ELSE st[call_id]

\* round(num / den) to the nearest integer, ties to the even one.  Python
\* rounds the binary float: a tie that is exact in binary (a quarter, a
\* half) goes to the even digit as here; for a decimal tie that is not
\* exact in binary the result follows the float's error.
RoundHalfEven(num, den) ==
    LET q == num \div den
        rem == num % den
    IN  IF 2 * rem < den THEN q
        ELSE IF 2 * rem > den THEN q + 1
        ELSE IF q % 2 = 0 THEN q ELSE q + 1

(***************************************************************************)
(* The feedback.  load_context adds two keys to the context it returns,    *)
(* previous_llm_analyses and overall_scam_trend, both computed from the    *)
(* chunks of the loaded document; the prompt of the reasoning engine shows *)
(* the last analyses and the trend.                                        *)
(***************************************************************************)
\* load_context: one entry per stored chunk, in stored order
previous_llm_analyses(context) ==
    IF ~context.exists
    THEN <<>>
    ELSE [i \in 1..Len(context.chunks) |->
             [chunk_number |-> context.chunks[i].chunk_number,
              is_scam |-> context.chunks[i].scam_analysis.is_scam,
              confidence |-> context.chunks[i].scam_analysis.confidence,
              red_flags |-> context.chunks[i].scam_analysis.red_flags]]

\* the concatenation of the red flags of the analyses
RECURSIVE FlagOccurrences(_)
FlagOccurrences(analyses) ==
    IF analyses = <<>> THEN <<>>
    ELSE FlagOccurrences(SubSeq(analyses, 1, Len(analyses) - 1))
             \o analyses[Len(analyses)].red_flags

\* the flags that occur at least twice among all red flags (as a set)
ConsistentRedFlags(analyses) ==
    LET all == FlagOccurrences(analyses)
    IN  {all[i] : i \in {k \in 1..Len(all) :
                            Cardinality({m \in 1..Len(all) : all[m] = all[k]})
                                >= ConsistentCount}}

\* variant for C29: the thresholds are exclusive
TrendClassExclusive(scam, total) ==
    IF 100 * scam > TrendHigh * total THEN "highly_suspicious"
    ELSE IF 100 * scam > TrendModerate * total THEN "moderately_suspicious"
    ELSE IF 100 * scam > TrendPotential * total THEN "potentially_suspicious"
    ELSE "likely_clean"
\* the trend from scam_percentage = scam / total * 100
TrendClass(scam, total) ==
    IF 100 * scam >= TrendHigh * total THEN "highly_suspicious"
    ELSE IF 100 * scam >= TrendModerate * total THEN "moderately_suspicious"
    ELSE IF 100 * scam >= TrendPotential * total THEN "potentially_suspicious"
    ELSE "likely_clean"

\* variant for C37: the falling test comes first
PatternFallsFirst(confidences) ==
    IF Len(confidences) >= PatternWindow
    THEN LET recent_trend == LastN(confidences, PatternWindow)
         IN  IF \A i \in 1..(Len(recent_trend) - 1) :
                    recent_trend[i] >= recent_trend[i + 1]
             THEN "de-escalating"
             ELSE IF \A i \in 1..(Len(recent_trend) - 1) :
                         recent_trend[i] <= recent_trend[i + 1]
             THEN "escalating"
             ELSE "variable"
    ELSE "insufficient_data"
\* the escalation pattern from the confidences, oldest first
EscalationPattern(confidences) ==
    IF Len(confidences) >= PatternWindow
    THEN LET recent_trend == LastN(confidences, PatternWindow)
         IN  IF \A i \in 1..(Len(recent_trend) - 1) :
                    recent_trend[i] <= recent_trend[i + 1]
             THEN "escalating"
             ELSE IF \A i \in 1..(Len(recent_trend) - 1) :
                         recent_trend[i] >= recent_trend[i + 1]
             THEN "de-escalating"
             ELSE "variable"
    ELSE "insufficient_data"

RECURSIVE SumAnalyses(_)
SumAnalyses(analyses) ==
    IF analyses = <<>> THEN 0
    ELSE SumAnalyses(SubSeq(analyses, 1, Len(analyses) - 1))
             + analyses[Len(analyses)].confidence

\* CacheManager._calculate_scam_trend; average_confidence and
\* scam_percentage in tenths
calculate_scam_trend(analyses) ==
    IF analyses = <<>>
    THEN [trend |-> "unknown", average_confidence |-> 0,
          consistent_red_flags |-> {}, escalation_pattern |-> "stable"]
    ELSE LET scam == Cardinality({i \in 1..Len(analyses) : analyses[i].is_scam})
         IN  [trend |-> TrendClass(scam, Len(analyses)),
              average_confidence |->
                  RoundHalfEven(10 * SumAnalyses(analyses), Len(analyses)),
              scam_percentage |-> RoundHalfEven(1000 * scam, Len(analyses)),
              consistent_red_flags |-> ConsistentRedFlags(analyses),
              escalation_pattern |->
                  EscalationPattern([i \in 1..Len(analyses) |-> analyses[i].confidence]),
              total_chunks_analyzed |-> Len(analyses)]

\* variant for C28: the prompt shows every previous analysis
EveryAnalysis(analyses) == analyses
\* the prompt shows previous_llm_analyses[-3:]
RecentAnalyses(analyses) == LastN(analyses, FeedbackWindow)

\* no prompt was built
NoFeedback == [kind |-> "none"]
\* "FIRST CHUNK": the prompt says that no previous context is available
FirstChunk == [kind |-> "first_chunk"]

\* LLMAnalyzer._build_analysis_prompt: the part of the prompt that is made
\* from previous_context
PromptFeedback(previous_context) ==
    LET analyses == previous_llm_analyses(previous_context)
    IN  IF analyses # <<>>
        THEN [kind |-> "history",
              previous_chunks |-> Len(analyses),
              recent |-> RecentAnalyses(analyses),
              overall_trend |-> calculate_scam_trend(analyses)]
        ELSE FirstChunk

\* the names a cache file can take: one per call id, and the one a request
\* without a call id would give
CacheFiles == CallIds \cup {NoCallId}

\* variant for C40: update_context does not test the call id
NeverSkips(call_id) == FALSE
\* update_context returns at once when the call id is missing or empty
SkipsUpdate(call_id) == call_id = NoCallId

\* update_context: load the context, or initialise it for a new call
LoadOrInit(st, call_id, read_ok) ==
    LET context == load_context(st, call_id, read_ok)
    IN  IF ~context.exists THEN InitialContext ELSE context

\* variant for C21: clear empties the chunk list and keeps the document
ClearKeepsAggregate(st, call_id) ==
    [st EXCEPT ![call_id] = IF @.exists THEN [@ EXCEPT !.chunks = <<>>] ELSE @]
\* variant for C26: clear removes every document of the cache directory
ClearEveryCall(st, call_id) == [c \in DOMAIN st |-> NoFile]
\* CacheManager.clear_call_data: unlink the file when it exists
clear_call_data(st, call_id) ==
    IF st[call_id].exists THEN [st EXCEPT ![call_id] = NoFile] ELSE st

\* the set made from the red flags of all chunks
RECURSIVE AllRedFlags(_)
AllRedFlags(chunks) ==
    IF chunks = <<>>
    THEN {}
    ELSE LET flags == chunks[Len(chunks)].scam_analysis.red_flags
         IN  AllRedFlags(SubSeq(chunks, 1, Len(chunks) - 1))
                 \cup {flags[i] : i \in 1..Len(flags)}

RECURSIVE SumConfidence(_)
SumConfidence(chunks) ==
    IF chunks = <<>>
    THEN 0
    ELSE SumConfidence(SubSeq(chunks, 1, Len(chunks) - 1))
             + chunks[Len(chunks)].scam_analysis.confidence

\* variant for C39: a call is likely a scam from the medium threshold on
LikelyAtMedium(likelihood) == likelihood > RiskMedium
\* is_likely_scam of the summary
IsLikelyScam(likelihood) == likelihood > LikelyScam

\* CacheManager.get_call_summary.  scam_likelihood is in hundredths,
\* scam_percentage and average_confidence are in tenths, duration_analyzed
\* in seconds; red_flags is the set whose elements list(set(..)) returns.
get_call_summary(st, call_id, read_ok) ==
    LET context == load_context(st, call_id, read_ok)
        chunks == context.chunks
        overall == context.overall
        scam_chunks ==
            Cardinality({i \in 1..Len(chunks) : chunks[i].scam_analysis.is_scam})
    IN  IF ~context.exists
        THEN [kind |-> "summary", call_id |-> call_id, error |-> "Call not found"]
        ELSE [kind |-> "summary", call_id |-> call_id,
              total_chunks |-> Len(chunks),
              duration_analyzed |-> Len(chunks) * ChunkSeconds,
              overall_assessment |->
                  [is_likely_scam |-> IsLikelyScam(overall.scam_likelihood),
                   scam_likelihood |-> RoundHalfEven(overall.scam_likelihood, 10),
                   risk_level |-> overall.risk_level,
                   escalation_trend |-> overall.escalation_trend],
              statistics |->
                  [scam_chunks |-> scam_chunks,
                   scam_percentage |->
                       IF chunks # <<>>
                       THEN RoundHalfEven(1000 * scam_chunks, Len(chunks))
                       ELSE 0,
                   ai_voice_detected_chunks |->
                       Cardinality({i \in 1..Len(chunks) : chunks[i].ai_voice_detected}),
                   suspicious_background_chunks |->
                       Cardinality({i \in 1..Len(chunks) :
                                       chunks[i].suspicious_background}),
                   average_confidence |->
                       IF chunks # <<>>
                       THEN RoundHalfEven(10 * SumConfidence(chunks), Len(chunks))
                       ELSE 0],
              red_flags |-> AllRedFlags(chunks),
              speaker_analysis |-> context.speaker_profiles,
              timeline |-> context.timeline,
              latest_analysis |->
                  IF chunks # <<>> THEN chunks[Len(chunks)].scam_analysis
                  ELSE EmptyMap]

(***************************************************************************)
(* Analysis modules.  Every module catches its own exceptions and returns  *)
(* a result dictionary; the failure result carries an "error" key.         *)
(***************************************************************************)
\* the three tasks submitted to the ThreadPoolExecutor
Tasks == {"transcription", "ai_voice_detection", "background_noise"}

\* a task's future: not submitted, running, or done with its result.  value
\* is the flag of the result that the pipeline reads: is_ai_voice,
\* is_suspicious, and for the transcription whether a transcript was produced
TaskNone == [status |-> "none", value |-> FALSE, error |-> FALSE]
TaskRunning == [status |-> "running", value |-> FALSE, error |-> FALSE]
TaskResult(value, error) == [status |-> "done", value |-> value, error |-> error]

\* the failure results of transcribe and of the two detect methods:
\* transcript "", is_ai_voice False, is_suspicious False, and "error"
TaskDefault == TaskResult(FALSE, TRUE)

\* what a run of a module did: the flag it computed and whether it raised
ModuleRun(value, raised) == [value |-> value, raised |-> raised]

\* variant for C16: a module that raised returns what it had computed
KeepsPartialResult(run) == TaskResult(run.value, run.raised)
\* the try/except of a module: its result, or the failure result
module_result(run) ==
    IF run.raised THEN TaskDefault ELSE TaskResult(run.value, FALSE)

\* variant for C19: the orchestrator waits for the first future only
FirstTaskJoined(tasks) == tasks["transcription"].status = "done"
\* Future.result() of the three futures and the exit of the `with` block
TasksJoined(tasks) == \A t \in Tasks : tasks[t].status = "done"

\* the result of SpeakerDiarizer.diarize: speakers are the distinct
\* speakers of the segments, so there are segments iff there are speakers
DiarizationNone == [status |-> "none", speakers |-> {}, error |-> FALSE]
DiarizationResult(speakers, error) ==
    [status |-> "done", speakers |-> speakers, error |-> error]
\* the failure result of diarize: segments [], num_speakers 0, and "error"
DiarizationDefault == DiarizationResult({}, TRUE)

\* diarization_result['segments'] is a non-empty list
HasSegments(diarization) == diarization.speakers # {}

\* variant for C15: without segments the emotion of the whole chunk is taken
WholeChunkFile == {"S0"}
\* speaker_files = {} when the emotion stage is skipped
NoSpeakerFiles == {}

\* split_audio_by_speakers: one file per speaker, {} when it raised
split_audio_by_speakers(diarization, split_ok) ==
    IF split_ok THEN diarization.speakers ELSE {}

\* the modules whose result in analysis_data carries an "error" key
ModuleErrors(tasks, diarization) ==
    {t \in Tasks : tasks[t].error}
    \cup (IF diarization.error THEN {"speaker_diarization"} ELSE {})

\* analysis_data, as far as update_context and the prompt builder read it
AnalysisData(chunk_number, tasks, diarization, emotion_results) ==
    [chunk_number |-> chunk_number,
     ai_voice |-> tasks["ai_voice_detection"].value,
     suspicious |-> tasks["background_noise"].value,
     num_speakers |-> Cardinality(diarization.speakers),
     emotions |-> emotion_results,
     errors |-> ModuleErrors(tasks, diarization)]

(***************************************************************************)
(* Temporary files.  A path is <<directory, call id, chunk number,         *)
(* timestamp, name>>; the content of a file is the request whose data was  *)
(* written to it last, Truncated after open(.., "wb").                     *)
(***************************************************************************)
NoPath == <<"", "", 0, 0, "">>
Truncated == "truncated"

\* temp_audio/{call_id}_{chunk_number}_{timestamp}.wav
AudioFile(call_id, chunk_number, timestamp) ==
    <<"temp_audio", call_id, chunk_number, timestamp, "wav">>

\* convert_to_standard_format: {stem}_processed.wav next to the input
ProcessedFile(audio_filename) ==
    <<audio_filename[1], audio_filename[2], audio_filename[3], audio_filename[4],
      "processed.wav">>

\* split_audio_by_speakers: speaker_segments/speaker_{speaker}.wav
ClipFile(speaker) == <<"speaker_segments", "", 0, 0, speaker>>

WriteFiles(fs, paths, content) ==
    [p \in DOMAIN fs \cup paths |-> IF p \in paths THEN content ELSE fs[p]]

WriteFile(fs, path, content) == WriteFiles(fs, {path}, content)

\* the files the handler hands to cleanup_temp_files
TempFiles(request) ==
    {request.audio_filename, ProcessedFile(request.audio_filename)}
        \cup {ClipFile(s) : s \in request.speaker_files}

\* cleanup_temp_files: remove every listed path that exists
cleanup_temp_files(fs, paths) == [p \in DOMAIN fs \ paths |-> fs[p]]

\* requests that are in flight together arrived in different milliseconds
OwnMs(r) == IF r = "r1" THEN 1 ELSE 2

(***************************************************************************)
(* State.                                                                  *)
(***************************************************************************)
VARIABLES
    store,      \* call id -> persisted document, or NoFile
    pc,         \* request -> position of its analyze_audio_chunk coroutine
    req,        \* request -> the local variables of that coroutine
    running,    \* the request whose coroutine occupies the event loop, or "none"
    submitted,  \* number of requests accepted so far
    response,   \* the response of the request that completed last
    history,    \* call id -> the (chunk_data, verdict) pairs whose commit
                \* completed since the call's document was last cleared
    raced,      \* call id -> commits completed by requests that were in
                \* flight together with another request of the same call
    files       \* path -> who wrote the content of the temporary file at
                \* that path (temp_audio/ and speaker_segments/)

vars == <<store, pc, req, running, submitted, response, history, raced, files>>

\* errors: the modules whose result carries an "error" key
NoChunkData ==
    [chunk_number |-> 0, ai_voice |-> FALSE, suspicious |-> FALSE,
     num_speakers |-> 0, emotions |-> EmptyMap, errors |-> {}]

\* feedback: what the prompt of this request showed of the previous chunks
\* engine: the outcome of the engine run of this request, "none" while the
\* engine has not been invoked
BlankRequest ==
    [call_id |-> NoCallId, chunk_number |-> 0, previous_context |-> EmptyContext,
     tasks |-> [t \in Tasks |-> TaskNone], diarization |-> DiarizationNone,
     audio_filename |-> NoPath,
     speaker_files |-> {}, emotion_results |-> EmptyMap,
     chunk_data |-> NoChunkData, feedback |-> NoFeedback,
     engine |-> "none", llm |-> AnalyzeError,
     context |-> EmptyContext, overlapped |-> FALSE]

NoResponse == [kind |-> "none"]

Init ==
    /\ store = [c \in CacheFiles |-> NoFile]
    /\ pc = [r \in Requests |-> "idle"]
    /\ req = [r \in Requests |-> BlankRequest]
    /\ running = "none"
    /\ submitted = 0
    /\ response = NoResponse
    /\ history = [c \in CacheFiles |-> <<>>]
    /\ raced = [c \in CacheFiles |-> 0]
    /\ files = EmptyMap

(***************************************************************************)
(* The event loop.  uvicorn runs the application in one process with one   *)
(* event loop; every endpoint is an `async def`, and analyze_audio_chunk   *)
(* has a single suspension point, `await file.read()`.  Everything after   *)
(* it is synchronous code on the loop's thread, so a coroutine is resumed  *)
(* only when no other coroutine is between its resumption and its return.  *)
(***************************************************************************)
\* variant for C1: handlers run on worker threads, any of them may proceed
LoopThreaded == TRUE
\* no coroutine is between its resumption and its return
LoopFree == running = "none"

InFlight(r) == pc[r] # "idle"

\* some other request of the same call is in flight
Overlaps(r, call_id) ==
    \E o \in Requests \ {r} : InFlight(o) /\ req[o].call_id = call_id

\* POST /analyze-audio accepted at millisecond `timestamp`: the coroutine
\* names its audio file, opens it for writing and runs up to
\* `await file.read()`
ArriveAt(r, call_id, chunk_number, timestamp, limit) ==
    /\ pc[r] = "idle"
    /\ LoopFree
    /\ submitted < limit
    /\ files' = WriteFile(files, AudioFile(call_id, chunk_number, timestamp), Truncated)
    /\ submitted' = submitted + 1
    /\ pc' = [pc EXCEPT ![r] = "reading"]
    /\ req' = [o \in Requests |->
                 IF o = r
                 THEN [BlankRequest EXCEPT !.call_id = call_id,
                                           !.chunk_number = chunk_number,
                                           !.audio_filename =
                                               AudioFile(call_id, chunk_number, timestamp),
                                           !.overlapped = Overlaps(r, call_id)]
                 ELSE IF InFlight(o) /\ req[o].call_id = call_id
                 THEN [req[o] EXCEPT !.overlapped = TRUE]
                 ELSE req[o]]
    /\ UNCHANGED <<store, running, response, history, raced>>

\* the same, for a request that arrives in a millisecond of its own
Arrive(r, call_id, chunk_number, limit) ==
    ArriveAt(r, call_id, chunk_number, OwnMs(r), limit)

\* the coroutine is resumed: audio saved and converted, previous context loaded
Resume(r, read_ok) ==
    /\ pc[r] = "reading"
    /\ LoopFree
    /\ req[r].audio_filename \in DOMAIN files
    /\ files' = WriteFiles(files, {req[r].audio_filename,
                                   ProcessedFile(req[r].audio_filename)}, r)
    /\ running' = r
    /\ pc' = [pc EXCEPT ![r] = "loaded"]
    /\ req' = [req EXCEPT ![r].previous_context =
                              load_context(store, req[r].call_id, read_ok)]
    /\ UNCHANGED <<store, submitted, response, history, raced>>

\* the analysis stages produce the chunk's evidence
Analyse(r, evidence) ==
    /\ pc[r] = "loaded"
    /\ pc' = [pc EXCEPT ![r] = "analysed"]
    /\ req' = [req EXCEPT ![r].chunk_data =
                  [chunk_number |-> req[r].chunk_number,
                   ai_voice |-> evidence.ai_voice,
                   suspicious |-> evidence.suspicious,
                   num_speakers |-> evidence.num_speakers,
                   emotions |-> evidence.emotions,
                   errors |-> evidence.errors],
                          ![r].speaker_files = DOMAIN evidence.emotions]
    /\ files' = WriteFiles(files, {ClipFile(s) : s \in DOMAIN evidence.emotions}, r)
    /\ UNCHANGED <<store, running, submitted, response, history, raced>>

\* The analysis stages one by one.  Analyse above is their composition for
\* runs in which no module reports an error; the actions below are the
\* steps of the same lines of analyze_audio_chunk.

\* executor.submit of the three tasks
FanOut(r) ==
    /\ pc[r] = "loaded"
    /\ pc' = [pc EXCEPT ![r] = "tasks"]
    /\ req' = [req EXCEPT ![r].tasks = [t \in Tasks |-> TaskRunning]]
    /\ UNCHANGED <<store, running, submitted, response, history, raced, files>>

\* a worker thread finishes its module call
TaskDone(r, t, run) ==
    /\ req[r].tasks[t].status = "running"
    /\ req' = [req EXCEPT ![r].tasks[t] = module_result(run)]
    /\ UNCHANGED <<store, pc, running, submitted, response, history, raced, files>>

\* the three Future.result() calls have returned and the executor is shut down
Join(r) ==
    /\ pc[r] = "tasks"
    /\ TasksJoined(req[r].tasks)
    /\ pc' = [pc EXCEPT ![r] = "joined"]
    /\ UNCHANGED <<store, req, running, submitted, response, history, raced, files>>

\* speaker_diarizer.diarize
Diarize(r, diarization) ==
    /\ pc[r] = "joined"
    /\ pc' = [pc EXCEPT ![r] = "diarized"]
    /\ req' = [req EXCEPT ![r].diarization = diarization]
    /\ UNCHANGED <<store, running, submitted, response, history, raced, files>>

\* there are segments: split the audio by speaker
Split(r, split_ok) ==
    /\ pc[r] = "diarized"
    /\ HasSegments(req[r].diarization)
    /\ pc' = [pc EXCEPT ![r] = "emotions"]
    /\ req' = [req EXCEPT ![r].speaker_files =
                              split_audio_by_speakers(req[r].diarization, split_ok)]
    /\ files' = WriteFiles(files,
                           {ClipFile(s) : s \in split_audio_by_speakers(
                                                    req[r].diarization, split_ok)}, r)
    /\ UNCHANGED <<store, running, submitted, response, history, raced>>

\* there are no segments: the emotion stage is skipped
SkipEmotion(r) ==
    /\ pc[r] = "diarized"
    /\ ~HasSegments(req[r].diarization)
    /\ pc' = [pc EXCEPT ![r] = "emotions"]
    /\ req' = [req EXCEPT ![r].speaker_files = NoSpeakerFiles]
    /\ UNCHANGED <<store, running, submitted, response, history, raced, files>>

\* one iteration of the loop over speaker_files: emotion_detector.detect
DetectEmotion(r, speaker, emotions) ==
    /\ pc[r] = "emotions"
    /\ speaker \in req[r].speaker_files \ DOMAIN req[r].emotion_results
    /\ req' = [req EXCEPT ![r].emotion_results =
                  [s \in DOMAIN @ \cup {speaker} |->
                      IF s = speaker THEN emotions ELSE @[s]]]
    /\ UNCHANGED <<store, pc, running, submitted, response, history, raced, files>>

\* the loop is over: analysis_data is put together
Assemble(r) ==
    /\ pc[r] = "emotions"
    /\ req[r].speaker_files \subseteq DOMAIN req[r].emotion_results
    /\ pc' = [pc EXCEPT ![r] = "analysed"]
    /\ req' = [req EXCEPT ![r].chunk_data =
                  AnalysisData(req[r].chunk_number, req[r].tasks,
                               req[r].diarization, req[r].emotion_results)]
    /\ UNCHANGED <<store, running, submitted, response, history, raced, files>>

\* convert_to_standard_format raises: the handler answers HTTP 500
ConvertFail(r) ==
    /\ pc[r] = "reading"
    /\ LoopFree
    /\ pc' = [pc EXCEPT ![r] = "idle"]
    /\ req' = [req EXCEPT ![r] = BlankRequest]
    /\ response' = [kind |-> "error", call_id |-> req[r].call_id,
                    chunk_number |-> req[r].chunk_number, status |-> 500]
    /\ files' = IF req[r].audio_filename \in DOMAIN files
                THEN WriteFile(files, req[r].audio_filename, r)
                ELSE files
    /\ UNCHANGED <<store, running, submitted, history, raced>>

\* the audio file is no longer at its path when the coroutine is resumed:
\* librosa.load raises
ConvertMissing(r) ==
    /\ req[r].audio_filename \notin DOMAIN files
    /\ ConvertFail(r)

\* update_context: writing the document raises, the exception is logged and
\* swallowed, and the handler returns its normal response
UpdateFail(r) ==
    /\ pc[r] = "updating"
    /\ pc' = [pc EXCEPT ![r] = "idle"]
    /\ running' = "none"
    /\ response' = [kind |-> "analysis", call_id |-> req[r].call_id,
                    chunk_number |-> req[r].chunk_number,
                    errors |-> req[r].chunk_data.errors,
                    scam_analysis |-> req[r].llm]
    /\ req' = [req EXCEPT ![r] = BlankRequest]
    /\ files' = cleanup_temp_files(files, TempFiles(req[r]))
    /\ UNCHANGED <<store, submitted, history, raced>>

\* llm_analyzer.analyze(analysis_data)
Reason(r, outcome) ==
    /\ pc[r] = "analysed"
    /\ pc' = [pc EXCEPT ![r] = "reasoned"]
    /\ req' = [req EXCEPT ![r].llm = analyze(req[r].chunk_data, outcome),
                          ![r].engine = EngineInvoked(req[r].chunk_data, outcome),
                          ![r].feedback =
                              IF PromptRaises(req[r].chunk_data)
                              THEN NoFeedback
                              ELSE PromptFeedback(req[r].previous_context)]
    /\ UNCHANGED <<store, running, submitted, response, history, raced, files>>

\* update_context: the read half of its read-modify-write
UpdateLoad(r, read_ok) ==
    /\ pc[r] = "reasoned"
    /\ pc' = [pc EXCEPT ![r] = "updating"]
    /\ req' = [req EXCEPT ![r].context =
                  IF SkipsUpdate(req[r].call_id)
                  THEN EmptyContext
                  ELSE LoadOrInit(store, req[r].call_id, read_ok)]
    /\ UNCHANGED <<store, running, submitted, response, history, raced, files>>

\* update_context: append, derive, save; then the handler returns
UpdateSave(r) ==
    /\ pc[r] = "updating"
    /\ pc' = [pc EXCEPT ![r] = "idle"]
    /\ running' = "none"
    /\ LET c == req[r].call_id
       IN  IF SkipsUpdate(c)
           THEN UNCHANGED <<store, history, raced>>
           ELSE /\ store' = [store EXCEPT ![c] =
                                AppendChunk(req[r].context, req[r].chunk_data, req[r].llm)]
                /\ history' = [history EXCEPT ![c] =
                                  Append(@, [chunk_data |-> req[r].chunk_data,
                                             llm |-> req[r].llm])]
                /\ raced' = [raced EXCEPT ![c] = IF req[r].overlapped THEN @ + 1 ELSE @]
    /\ response' = [kind |-> "analysis", call_id |-> req[r].call_id,
                    chunk_number |-> req[r].chunk_number,
                    errors |-> req[r].chunk_data.errors,
                    scam_analysis |-> req[r].llm]
    /\ req' = [req EXCEPT ![r] = BlankRequest]
    /\ files' = cleanup_temp_files(files, TempFiles(req[r]))
    /\ UNCHANGED submitted

\* DELETE /call-data/{call_id}: clear_call_data
Clear(call_id) ==
    /\ LoopFree
    /\ store' = clear_call_data(store, call_id)
    /\ history' = [history EXCEPT ![call_id] = <<>>]
    /\ raced' = [raced EXCEPT ![call_id] = 0]
    /\ response' = [kind |-> "cleared", call_id |-> call_id]
    /\ UNCHANGED <<pc, req, running, submitted, files>>

\* update_context has the call's file open for writing: open(.., 'w') has
\* truncated it and json.dump has not finished, so a reader finds no
\* complete document
Writing(call_id) ==
    \E r \in Requests : pc[r] = "updating" /\ req[r].call_id = call_id

\* variant for C22: the summary logs its own request in the timeline
SummaryRecords(call_id, read_ok) ==
    /\ LoopFree
    /\ response' = get_call_summary(store, call_id, read_ok /\ ~Writing(call_id))
    /\ store' = [store EXCEPT ![call_id] =
                    IF @.exists
                    THEN [@ EXCEPT !.timeline =
                             Append(@, TimelineEvent(0, "summary_requested", 0, 0))]
                    ELSE @]
    /\ UNCHANGED <<pc, req, running, submitted, history, raced, files>>
\* variant for C24: the summary initialises and saves a missing context
SummaryInitialises(call_id, read_ok) ==
    /\ LoopFree
    /\ response' = get_call_summary(store, call_id, read_ok /\ ~Writing(call_id))
    /\ store' = [store EXCEPT ![call_id] = LoadOrInit(store, call_id, read_ok)]
    /\ UNCHANGED <<pc, req, running, submitted, history, raced, files>>
\* GET /call-summary/{call_id}: get_call_summary
Summary(call_id, read_ok) ==
    /\ LoopFree
    /\ response' = get_call_summary(store, call_id, read_ok /\ ~Writing(call_id))
    /\ UNCHANGED <<store, pc, req, running, submitted, history, raced, files>>

(***************************************************************************)
(* Inputs.  The evidence of a chunk is what the analysis modules returned: *)
(* the AI-voice and background flags, the diarization's speaker count and  *)
(* the per-speaker emotion results (empty when diarization found no        *)
(* segment).                                                               *)
(***************************************************************************)
Evidence(ai_voice, suspicious, num_speakers, emotions) ==
    [ai_voice |-> ai_voice, suspicious |-> suspicious,
     num_speakers |-> num_speakers, emotions |-> emotions, errors |-> {}]

Emotion(top_emotion, stress_level) ==
    [top_emotion |-> top_emotion, stress_level |-> stress_level]

Silence == Evidence(FALSE, FALSE, 0, EmptyMap)
OneSpeaker == Evidence(TRUE, TRUE, 1, [s \in {"S0"} |-> Emotion("angry", 90)])
TwoSpeakers ==
    Evidence(TRUE, FALSE, 2,
             [s \in Speakers |-> IF s = "S0" THEN Emotion("neutral", 10)
                                 ELSE Emotion("fear", 50)])

\* Spec and SpecFault: two calls, concurrent requests, few inputs (SpecFault
\* draws its engine outcomes from FaultOutcomes)
SpecEvidence == {Silence, OneSpeaker}
SpecOutcomes ==
    {EngineTimeout,
     EngineJson(TRUE, 150, <<"urgency">>),
     EngineJson(FALSE, 10, <<"urgency", "payment">>)}

\* SpecVerdicts: one call, one request at a time, chunks numbered in order,
\* every kind of engine outcome
VerdictOutcomes ==
    {EngineTimeout, EngineFailed, EngineText,
     EngineJson(FALSE, 10, <<>>),
     EngineJson(TRUE, 50, <<"urgency">>),
     EngineJson(TRUE, 70, <<"payment">>),
     EngineJson(TRUE, 90, <<"urgency", "payment">>),
     EngineJson(TRUE, 150, <<"urgency", "urgency">>),
     EngineJson(TRUE, -20, <<"payment">>),
     EngineJson(FALSE, -20, <<"urgency">>),
     EngineOutcome("json", TRUE, TRUE, "text", 0, TRUE, <<"urgency">>),
     EngineOutcome("json", FALSE, FALSE, "missing", 0, FALSE, <<>>)}
\* requests accepted in one behaviour of SpecVerdicts
MaxVerdictChunks == 4

\* SpecLong: one call, chunks numbered in order, long histories
LongEvidence == {OneSpeaker, TwoSpeakers}
LongOutcomes == {EngineJson(TRUE, 90, <<"urgency">>)}

\* SpecStages and SpecStagesFault: one call, one request at a time, chunks
\* numbered in order, every module may fail
StageRuns == {ModuleRun(TRUE, FALSE), ModuleRun(TRUE, TRUE)}
StageDiarizations ==
    {DiarizationResult({}, FALSE), DiarizationDefault,
     DiarizationResult(Speakers, FALSE)}
\* the error result of the emotion detector
EmotionError == Emotion("unknown", 0)
StageEmotions == {Emotion("angry", 90), EmotionError}
StageOutcomes == {EngineJson(TRUE, 90, <<"urgency">>)}
FaultOutcomes == {EngineTimeout, EngineJson(TRUE, 90, <<"urgency">>)}
\* SpecTrend: one call, one request at a time, chunks numbered in order,
\* long runs of scam and clean verdicts
TrendOutcomes ==
    {EngineJson(TRUE, 70, <<"payment">>), EngineJson(FALSE, 10, <<>>)}
\* requests accepted in one behaviour of SpecTrend
MaxTrendChunks == 11
\* SpecFailSoft: one call, one request at a time, chunks numbered in order;
\* a confident scam verdict, an engine that times out or prints no JSON
\* object, and a reply whose confidence is not a number
EngineWordy == EngineOutcome("json", TRUE, TRUE, "text", 0, TRUE, <<"urgency">>)
FailSoftOutcomes ==
    {EngineJson(TRUE, 100, <<"urgency">>), EngineTimeout, EngineText, EngineWordy}
\* requests accepted in one behaviour of SpecFailSoft
MaxFailSoftChunks == 7

\* SpecContrary: one call, one request at a time, chunks numbered in order;
\* verdicts that call a chunk a scam or not, each with a high confidence, and
\* a clean verdict of low confidence
ContraryOutcomes ==
    {EngineJson(TRUE, 90, <<"urgency">>), EngineJson(FALSE, 90, <<>>),
     EngineJson(TRUE, 50, <<"urgency">>), EngineJson(FALSE, 10, <<>>)}
\* requests accepted in one behaviour of SpecContrary
MaxContraryChunks == 4

\* SpecClear: one call, two requests that may be in flight together, chunks
\* numbered in order of arrival, clears and summaries at any time
\* requests accepted in one behaviour of SpecClear
MaxClearSubmits == 3

\* SpecAnonymous: one request at a time, chunks numbered in order, each
\* submitted for call "a" or without a call id
AnonymousIds == {NoCallId, "a"}
\* requests accepted in one behaviour of SpecAnonymous
MaxAnonymousChunks == 4

\* SpecProfiles: one call, one request at a time; one speaker whose stress
\* level is 0.0, 0.5 or 1.0, and a second speaker present in some chunks only
Calm == Evidence(FALSE, FALSE, 1, [s \in {"S0"} |-> Emotion("neutral", 0)])
Tense == Evidence(FALSE, FALSE, 1, [s \in {"S0"} |-> Emotion("angry", 100)])
Uneasy ==
    Evidence(FALSE, FALSE, 2,
             [s \in Speakers |-> IF s = "S0" THEN Emotion("sad", 50)
                                 ELSE Emotion("fearful", 100)])
ProfileEvidence == {Calm, Tense, Uneasy}
\* requests accepted in one behaviour of SpecProfiles
MaxProfileChunks == 5

\* SpecTimeline: one call, one request at a time, chunks numbered in order.
\* The call opens with chunks that all carry AI voice and a high confidence
\* (LongEvidence, LongOutcomes), which fill the timeline; its last
\* VariedChunks chunks come with and without AI voice, with 0, 1 or 2
\* speakers, and with a confidence above or below the event threshold
TimelineEvidence == {Silence, OneSpeaker, TwoSpeakers}
TimelineOutcomes ==
    {EngineJson(TRUE, 90, <<"urgency">>), EngineJson(FALSE, 10, <<>>)}
\* requests accepted in one behaviour of SpecTimeline
MaxTimelineChunks == 8
\* how many of them, at the end of the call, draw from the varied inputs
VariedChunks == 2
Varied(r) == req[r].chunk_number > MaxTimelineChunks - VariedChunks

\* SpecArtifacts: one call, two requests that may arrive in the same
\* millisecond
Milliseconds == {1, 2}
\* requests accepted in one behaviour of SpecArtifacts
MaxArtifactSubmits == 2
\* requests accepted in one behaviour of SpecStages
MaxStageChunks == 2
\* requests accepted in one behaviour of SpecStagesFault
MaxFaultChunks == 1

(***************************************************************************)
(* Specifications.                                                         *)
(***************************************************************************)
Next ==
    \/ \E r \in Requests, c \in CallIds, n \in ChunkNumbers : Arrive(r, c, n, MaxSubmits)
    \/ \E r \in Requests : Resume(r, TRUE)
    \/ \E r \in Requests, e \in SpecEvidence : Analyse(r, e)
    \/ \E r \in Requests, o \in SpecOutcomes : Reason(r, o)
    \/ \E r \in Requests : UpdateLoad(r, TRUE)
    \/ \E r \in Requests : UpdateSave(r)
    \/ \E c \in CallIds : Clear(c)
    \/ \E c \in CallIds : Summary(c, TRUE)

Spec == Init /\ [][Next]_vars

\* as Spec, and a read of an existing document may fail
NextFault ==
    \/ \E r \in Requests, c \in CallIds, n \in ChunkNumbers : Arrive(r, c, n, MaxSubmits)
    \/ \E r \in Requests, ok \in BOOLEAN : Resume(r, ok)
    \/ \E r \in Requests, e \in SpecEvidence : Analyse(r, e)
    \/ \E r \in Requests, o \in FaultOutcomes : Reason(r, o)
    \/ \E r \in Requests, ok \in BOOLEAN : UpdateLoad(r, ok)
    \/ \E r \in Requests : UpdateSave(r)
    \/ \E c \in CallIds : Clear(c)
    \/ \E c \in CallIds, ok \in BOOLEAN : Summary(c, ok)

SpecFault == Init /\ [][NextFault]_vars

NextVerdicts ==
    \/ Arrive("r1", "a", submitted + 1, MaxVerdictChunks)
    \/ Resume("r1", TRUE)
    \/ Analyse("r1", OneSpeaker)
    \/ \E o \in VerdictOutcomes : Reason("r1", o)
    \/ UpdateLoad("r1", TRUE)
    \/ UpdateSave("r1")
    \/ Clear("a")

SpecVerdicts == Init /\ [][NextVerdicts]_vars

NextLong ==
    \/ Arrive("r1", "a", submitted + 1, MaxLongChunks)
    \/ Resume("r1", TRUE)
    \/ \E e \in LongEvidence : Analyse("r1", e)
    \/ \E o \in LongOutcomes : Reason("r1", o)
    \/ UpdateLoad("r1", TRUE)
    \/ UpdateSave("r1")

SpecLong == Init /\ [][NextLong]_vars

\* two requests of one call; the clock does not run backwards between
\* requests that are in flight together
NextArtifacts ==
    \/ \E r \in Requests, n \in ChunkNumbers, t \in Milliseconds :
           /\ \A o \in Requests : InFlight(o) => req[o].audio_filename[4] <= t
           /\ ArriveAt(r, "a", n, t, MaxArtifactSubmits)
    \/ \E r \in Requests : Resume(r, TRUE)
    \/ \E r \in Requests : ConvertMissing(r)
    \/ \E r \in Requests, e \in SpecEvidence : Analyse(r, e)
    \/ \E r \in Requests, o \in StageOutcomes : Reason(r, o)
    \/ \E r \in Requests : UpdateLoad(r, TRUE)
    \/ \E r \in Requests : UpdateSave(r)

SpecArtifacts == Init /\ [][NextArtifacts]_vars

NextFailSoft ==
    \/ Arrive("r1", "a", submitted + 1, MaxFailSoftChunks)
    \/ Resume("r1", TRUE)
    \/ Analyse("r1", Silence)
    \/ \E o \in FailSoftOutcomes : Reason("r1", o)
    \/ UpdateLoad("r1", TRUE)
    \/ UpdateSave("r1")
    \/ Summary("a", TRUE)

SpecFailSoft == Init /\ [][NextFailSoft]_vars

NextContrary ==
    \/ Arrive("r1", "a", submitted + 1, MaxContraryChunks)
    \/ Resume("r1", TRUE)
    \/ Analyse("r1", Silence)
    \/ \E o \in ContraryOutcomes : Reason("r1", o)
    \/ UpdateLoad("r1", TRUE)
    \/ UpdateSave("r1")
    \/ Summary("a", TRUE)

SpecContrary == Init /\ [][NextContrary]_vars

NextClear ==
    \/ \E r \in Requests : Arrive(r, "a", submitted + 1, MaxClearSubmits)
    \/ \E r \in Requests : Resume(r, TRUE)
    \/ \E r \in Requests : Analyse(r, Silence)
    \/ \E r \in Requests, o \in StageOutcomes : Reason(r, o)
    \/ \E r \in Requests : UpdateLoad(r, TRUE)
    \/ \E r \in Requests : UpdateSave(r)
    \/ Clear("a")
    \/ Summary("a", TRUE)

SpecClear == Init /\ [][NextClear]_vars

NextAnonymous ==
    \/ \E c \in AnonymousIds : Arrive("r1", c, submitted + 1, MaxAnonymousChunks)
    \/ Resume("r1", TRUE)
    \/ Analyse("r1", Silence)
    \/ \E o \in StageOutcomes : Reason("r1", o)
    \/ UpdateLoad("r1", TRUE)
    \/ UpdateSave("r1")

SpecAnonymous == Init /\ [][NextAnonymous]_vars

NextProfiles ==
    \/ Arrive("r1", "a", submitted + 1, MaxProfileChunks)
    \/ Resume("r1", TRUE)
    \/ \E e \in ProfileEvidence : Analyse("r1", e)
    \/ \E o \in LongOutcomes : Reason("r1", o)
    \/ UpdateLoad("r1", TRUE)
    \/ UpdateSave("r1")

SpecProfiles == Init /\ [][NextProfiles]_vars

NextTimeline ==
    \/ Arrive("r1", "a", submitted + 1, MaxTimelineChunks)
    \/ Resume("r1", TRUE)
    \/ \E e \in LongEvidence : ~Varied("r1") /\ Analyse("r1", e)
    \/ \E o \in LongOutcomes : ~Varied("r1") /\ Reason("r1", o)
    \/ \E e \in TimelineEvidence : Varied("r1") /\ Analyse("r1", e)
    \/ \E o \in TimelineOutcomes : Varied("r1") /\ Reason("r1", o)
    \/ UpdateLoad("r1", TRUE)
    \/ UpdateSave("r1")

SpecTimeline == Init /\ [][NextTimeline]_vars

NextTrend ==
    \/ Arrive("r1", "a", submitted + 1, MaxTrendChunks)
    \/ Resume("r1", TRUE)
    \/ Analyse("r1", Silence)
    \/ \E o \in TrendOutcomes : Reason("r1", o)
    \/ UpdateLoad("r1", TRUE)
    \/ UpdateSave("r1")

SpecTrend == Init /\ [][NextTrend]_vars

\* the analysis stages step by step; modules may fail, the store and the
\* audio conversion do not
NextStages ==
    \/ Arrive("r1", "a", submitted + 1, MaxStageChunks)
    \/ Resume("r1", TRUE)
    \/ FanOut("r1")
    \/ \E t \in Tasks, run \in StageRuns : TaskDone("r1", t, run)
    \/ Join("r1")
    \/ \E d \in StageDiarizations : Diarize("r1", d)
    \/ \E ok \in BOOLEAN : Split("r1", ok)
    \/ SkipEmotion("r1")
    \/ \E s \in Speakers, e \in StageEmotions : DetectEmotion("r1", s, e)
    \/ Assemble("r1")
    \/ \E o \in StageOutcomes : Reason("r1", o)
    \/ UpdateLoad("r1", TRUE)
    \/ UpdateSave("r1")

SpecStages == Init /\ [][NextStages]_vars

\* as SpecStages, and the audio conversion, the reads and the write of the
\* store may fail
NextStagesFault ==
    \/ Arrive("r1", "a", submitted + 1, MaxFaultChunks)
    \/ \E ok \in BOOLEAN : Resume("r1", ok)
    \/ ConvertFail("r1")
    \/ FanOut("r1")
    \/ \E t \in Tasks, run \in StageRuns : TaskDone("r1", t, run)
    \/ Join("r1")
    \/ \E d \in StageDiarizations : Diarize("r1", d)
    \/ \E ok \in BOOLEAN : Split("r1", ok)
    \/ SkipEmotion("r1")
    \/ \E s \in Speakers, e \in StageEmotions : DetectEmotion("r1", s, e)
    \/ Assemble("r1")
    \/ \E o \in FaultOutcomes : Reason("r1", o)
    \/ \E ok \in BOOLEAN : UpdateLoad("r1", ok)
    \/ UpdateSave("r1")
    \/ UpdateFail("r1")

SpecStagesFault == Init /\ [][NextStagesFault]_vars

(***************************************************************************)
(* Reference values computed from the commit history.                      *)
(***************************************************************************)
\* the document that results from committing the history on a new call
RECURSIVE Replay(_)
Replay(h) ==
    IF h = <<>>
    THEN InitialContext
    ELSE AppendChunk(Replay(SubSeq(h, 1, Len(h) - 1)),
                     h[Len(h)].chunk_data, h[Len(h)].llm)

\* the chunk summaries of the history, in commit order
Summaries(h) == [i \in 1..Len(h) |-> ChunkSummary(h[i].chunk_data, h[i].llm)]

\* every timeline event ever appended for the history, in append order
RECURSIVE AllEvents(_)
AllEvents(h) ==
    IF h = <<>>
    THEN <<>>
    ELSE AllEvents(SubSeq(h, 1, Len(h) - 1))
         \o NewEvents(Summaries(h), Summaries(h)[Len(h)])

\* the (top_emotion, stress_level) results of a speaker, in commit order
RECURSIVE SpeakerResults(_, _)
SpeakerResults(h, s) ==
    IF h = <<>>
    THEN <<>>
    ELSE LET before == SpeakerResults(SubSeq(h, 1, Len(h) - 1), s)
             last == h[Len(h)].chunk_data.emotions
         IN  IF s \in DOMAIN last THEN Append(before, last[s]) ELSE before

Patterns(doc) == {doc.overall.persistent_patterns[i] :
                     i \in 1..Len(doc.overall.persistent_patterns)}

(***************************************************************************)
(* Claims.                                                                 *)
(***************************************************************************)

\* C1: two requests of the same call id are never both inside
\* update_context, and the persisted document of every call is the result
\* of committing, one after the other, every chunk whose commit has
\* completed: no completed commit is missing from chunks, overall,
\* speaker_profiles or timeline.
C1_SerializedCommits ==
    /\ \A r \in Requests, o \in Requests :
          (r # o /\ pc[r] = "updating" /\ pc[o] = "updating")
              => req[r].call_id # req[o].call_id
    /\ \A c \in CallIds :
          store[c] = IF history[c] = <<>> THEN NoFile ELSE Replay(history[c])

\* two requests of one call were in flight together and both have committed
C1_Witness ==
    \E c \in CallIds : raced[c] >= 2 /\ Len(store[c].chunks) >= 2

\* C2: the scam likelihood of every persisted document lies in [0, 1].
C2_LikelihoodInRange ==
    \A c \in CallIds :
        store[c].exists =>
            /\ store[c].overall.scam_likelihood >= 0
            /\ store[c].overall.scam_likelihood <= LikelihoodMax

\* the cap was needed: four scam chunks of confidence 100 add up to 1.2
C2_Witness ==
    /\ store["a"].exists
    /\ store["a"].overall.scam_likelihood = LikelihoodMax
    /\ Len(store["a"].chunks) = 4
    /\ \A i \in 1..4 : store["a"].chunks[i].scam_analysis.confidence = ConfidenceMax

\* C3: every chunk of every persisted document has a verdict confidence in
\* [0, 100], whatever the engine printed.
C3_ConfidenceInRange ==
    \A c \in CallIds :
        store[c].exists =>
            \A i \in 1..Len(store[c].chunks) :
                /\ store[c].chunks[i].scam_analysis.confidence >= 0
                /\ store[c].chunks[i].scam_analysis.confidence <= ConfidenceMax

\* the history holds a chunk whose engine confidence 150 was stored as 100
\* and a chunk whose engine confidence -20 was stored as 0 (the only scam
\* verdicts of VerdictOutcomes that can yield 100 and 0)
C3_Witness ==
    /\ store["a"].exists
    /\ \E i \in 1..Len(store["a"].chunks) :
          /\ store["a"].chunks[i].scam_analysis.is_scam
          /\ store["a"].chunks[i].scam_analysis.confidence = ConfidenceMax
    /\ \E i \in 1..Len(store["a"].chunks) :
          /\ store["a"].chunks[i].scam_analysis.is_scam
          /\ store["a"].chunks[i].scam_analysis.confidence = 0

\* C4: every flag of persistent_patterns occurs in the red_flags of at
\* least two chunks of the same document.
C4_PatternsSeenTwice ==
    \A c \in CallIds :
        store[c].exists =>
            \A f \in Patterns(store[c]) : FlagCount(f, store[c].chunks) >= 2

\* a flag was promoted, and a flag seen once was not
C4_Witness ==
    /\ store["a"].exists
    /\ "urgency" \in Patterns(store["a"])
    /\ FlagCount("payment", store["a"].chunks) = 1
    /\ "payment" \notin Patterns(store["a"])

\* C5: while a call's document exists (from its creation to a clear), a
\* flag of persistent_patterns stays in persistent_patterns.
C5_PatternsOnlyGrow ==
    [][\A c \in CallIds :
          (store[c].exists /\ store'[c].exists)
              => Patterns(store[c]) \subseteq Patterns(store'[c])]_vars

\* "urgency" was promoted and a later chunk without it has been committed
C5_Witness ==
    /\ store["a"].exists
    /\ "urgency" \in Patterns(store["a"])
    /\ LET chunks == store["a"].chunks
       IN  /\ Len(chunks) >= 3
           /\ ~InList("urgency", chunks[Len(chunks)].scam_analysis.red_flags)
           /\ FlagCount("urgency", SubSeq(chunks, 1, Len(chunks) - 1)) >= 2

\* C6: the persisted timeline has at most 20 events and is exactly the
\* last 20 (all, if fewer) of the events appended since the document was
\* created, in append order.
C6_TimelineFifo ==
    \A c \in CallIds :
        store[c].exists =>
            /\ Len(store[c].timeline) <= TimelineCap
            /\ store[c].timeline = LastN(AllEvents(history[c]), TimelineCap)

\* more than 20 events were appended, so the oldest were evicted
C6_Witness ==
    /\ store["a"].exists
    /\ Len(AllEvents(history["a"])) > TimelineCap + 2
    /\ Len(store["a"].timeline) = TimelineCap

\* C7: in every speaker profile dominant_emotions and stress_levels have
\* the same length, at most 10, and hold the top emotions and the stress
\* levels of the speaker's same most recent appearances, oldest first.
C7_ProfileLockStep ==
    \A c \in CallIds :
        store[c].exists =>
            \A s \in DOMAIN store[c].speaker_profiles :
                LET profile == store[c].speaker_profiles[s]
                    recent == LastN(SpeakerResults(history[c], s), ProfileWindow)
                IN  /\ Len(profile.dominant_emotions) = Len(profile.stress_levels)
                    /\ Len(profile.stress_levels) <= ProfileWindow
                    /\ profile.dominant_emotions =
                           [i \in 1..Len(recent) |-> recent[i].top_emotion]
                    /\ profile.stress_levels =
                           [i \in 1..Len(recent) |-> recent[i].stress_level]

\* a speaker appeared more than 10 times, so the oldest entries were dropped
C7_Witness ==
    /\ store["a"].exists
    /\ "S0" \in DOMAIN store["a"].speaker_profiles
    /\ store["a"].speaker_profiles["S0"].appearances > ProfileWindow
    /\ "S1" \in DOMAIN store["a"].speaker_profiles
    /\ store["a"].speaker_profiles["S1"].appearances < ProfileWindow

IsPrefix(s, t) == Len(s) <= Len(t) /\ SubSeq(t, 1, Len(s)) = s

\* C8: once a call's document exists, no step other than clear(call_id)
\* discards it or any chunk committed to it: after every other step the
\* document still exists and the earlier chunks are its first chunks.
C8_OnlyClearDiscards ==
    [][\A c \in CallIds :
          (store[c].exists /\ ~Clear(c))
              => /\ store'[c].exists
                 /\ IsPrefix(store[c].chunks, store'[c].chunks)]_vars

\* C9: the step that completes an update appends exactly one chunk summary,
\* carrying the request's chunk_number, at the end of the call's chunks and
\* leaves the earlier entries as they were, whatever the chunk_number.
C9_AppendOnly ==
    [][\A r \in Requests :
          (pc[r] = "updating" /\ pc'[r] = "idle" /\ req[r].call_id # NoCallId)
              => LET c == req[r].call_id
                     old == IF store[c].exists THEN store[c].chunks ELSE <<>>
                     new == store'[c].chunks
                 IN  /\ store'[c].exists
                     /\ Len(new) = Len(old) + 1
                     /\ SubSeq(new, 1, Len(old)) = old
                     /\ new[Len(new)].chunk_number = req[r].chunk_number]_vars

\* two chunks with the same chunk_number were committed, both are kept
C9_Witness ==
    \E c \in CallIds :
        /\ store[c].exists
        /\ Len(store[c].chunks) = 2
        /\ store[c].chunks[1].chunk_number = store[c].chunks[2].chunk_number
        /\ store[c].chunks[1] # store[c].chunks[2]

\* the rule as the claim states it, in thousandths
ClaimedRule(likelihood, is_scam, confidence) ==
    IF is_scam
    THEN Min(likelihood + (300 * confidence) \div 100, 1000)
    ELSE Max(likelihood - 100, 0)

RECURSIVE ClaimedLikelihood(_)
ClaimedLikelihood(h) ==
    IF h = <<>>
    THEN 0
    ELSE ClaimedRule(ClaimedLikelihood(SubSeq(h, 1, Len(h) - 1)),
                     h[Len(h)].llm.is_scam, h[Len(h)].llm.confidence)

\* the history consists of scam verdicts with these confidences
ScamRun(h, confidences) ==
    /\ Len(h) = Len(confidences)
    /\ \A i \in 1..Len(h) : h[i].llm.is_scam /\ h[i].llm.confidence = confidences[i]

Confidences(doc) == [i \in 1..Len(doc.chunks) |-> doc.chunks[i].scam_analysis.confidence]

\* C11: in every persisted document risk_level is "high" exactly when
\* scam_likelihood > 0.8, "medium" exactly when 0.5 < scam_likelihood <= 0.8
\* and "low" exactly when scam_likelihood <= 0.5; a call whose only chunk is
\* a non-scam chunk is "low".
C11_RiskFollowsLikelihood ==
    \A c \in CallIds :
        store[c].exists =>
            LET likelihood == store[c].overall.scam_likelihood
                risk == store[c].overall.risk_level
            IN  /\ (risk = "high") <=> (likelihood > 800)
                /\ (risk = "medium") <=> (likelihood > 500 /\ likelihood <= 800)
                /\ (risk = "low") <=> (likelihood <= 500)
                /\ (Len(history[c]) = 1 /\ ~history[c][1].llm.is_scam) => risk = "low"

\* scam chunks of confidence 50, 70, 90: likelihood 0.63, risk medium
C11_Witness ==
    /\ store["a"].exists
    /\ ScamRun(history["a"], <<50, 70, 90>>)
    /\ store["a"].overall.scam_likelihood = 630
    /\ store["a"].overall.risk_level = "medium"

\* C12: escalation_trend is "stable" while the document has fewer than 3
\* chunks; with 3 or more chunks it is "escalating" exactly when the
\* confidences of the last three chunks strictly increase, "de-escalating"
\* exactly when they strictly decrease, and "stable" otherwise.
C12_TrendOfLastThree ==
    \A c \in CallIds :
        store[c].exists =>
            LET conf == Confidences(store[c])
                n == Len(conf)
                trend == store[c].overall.escalation_trend
            IN  /\ n < 3 => trend = "stable"
                /\ n >= 3 =>
                      /\ (trend = "escalating")
                             <=> (conf[n - 2] < conf[n - 1] /\ conf[n - 1] < conf[n])
                      /\ (trend = "de-escalating")
                             <=> (conf[n - 2] > conf[n - 1] /\ conf[n - 1] > conf[n])
                      /\ trend \in {"escalating", "de-escalating", "stable"}

\* after a strict rise 50, 90, 100 the plateau 90, 100, 100 is stable
C12_Witness ==
    /\ store["a"].exists
    /\ Confidences(store["a"]) = <<50, 90, 100, 100>>
    /\ store["a"].overall.escalation_trend = "stable"

\* C13: when an update commits a verdict, every red flag of the verdict
\* that occurs in at least one earlier chunk of the document, adjacent or
\* not, is in persistent_patterns afterwards.
C13_PromotionCountsNewChunk ==
    [][\A r \in Requests :
          (pc[r] = "updating" /\ pc'[r] = "idle" /\ req[r].call_id # NoCallId)
              => LET c == req[r].call_id
                     earlier == IF store[c].exists THEN store[c].chunks ELSE <<>>
                     flags == req[r].llm.red_flags
                 IN  \A i \in 1..Len(flags) :
                        FlagCount(flags[i], earlier) >= 1
                            => flags[i] \in Patterns(store'[c])]_vars

\* "urgency" in chunks 1 and 3 but not in chunk 2, promoted by chunk 3
C13_Witness ==
    /\ store["a"].exists
    /\ Len(store["a"].chunks) = 3
    /\ InList("urgency", store["a"].chunks[1].scam_analysis.red_flags)
    /\ ~InList("urgency", store["a"].chunks[2].scam_analysis.red_flags)
    /\ InList("urgency", store["a"].chunks[3].scam_analysis.red_flags)
    /\ "urgency" \in Patterns(store["a"])

\* the engine run of a request ended without usable output
EngineFailures == {"timeout", "failed", "text"}

\* C14: when the reasoning engine timed out or printed no JSON object for a
\* chunk, the verdict committed for the chunk is is_scam = false,
\* confidence = 0, red_flags = ["reasoning_engine_error"], and the verdict
\* returned for the chunk is marked degraded = true.
C14_EngineFailureDefault ==
    [][\A r \in Requests :
          (/\ pc[r] = "updating" /\ pc'[r] = "idle"
           /\ req[r].call_id # NoCallId
           /\ req[r].engine \in EngineFailures)
              => LET c == req[r].call_id
                     committed == store'[c].chunks[Len(store'[c].chunks)].scam_analysis
                     returned == response'.scam_analysis
                 IN  /\ committed.is_scam = FALSE
                     /\ committed.confidence = 0
                     /\ committed.red_flags = <<"reasoning_engine_error">>
                     /\ "degraded" \in DOMAIN returned
                     /\ returned.degraded = TRUE]_vars

\* the step of request r that completes update_context for a call
Commits(r) == pc[r] = "updating" /\ pc'[r] = "idle" /\ req[r].call_id # NoCallId

\* the speaker profiles of a call's document, {} when there is no document
ProfilesOf(doc) == IF doc.exists THEN doc.speaker_profiles ELSE EmptyMap

\* C15: when the diarization of a chunk has no segments, no emotion
\* detection has run for the chunk and its emotion results are empty, the
\* request still completes with an analysis response, the commit leaves
\* speaker_profiles as it was, and it appends a chunk with num_speakers = 0.
C15_NoSegmentsSkipsEmotion ==
    [][\A r \in Requests :
          (Commits(r) /\ req[r].diarization.status = "done"
                      /\ req[r].diarization.speakers = {})
              => LET c == req[r].call_id
                     old == IF store[c].exists THEN store[c].chunks ELSE <<>>
                     new == store'[c].chunks
                 IN  /\ req[r].emotion_results = EmptyMap
                     /\ req[r].chunk_data.emotions = EmptyMap
                     /\ response'.kind = "analysis"
                     /\ ProfilesOf(store'[c]) = ProfilesOf(store[c])
                     /\ Len(new) = Len(old) + 1
                     /\ new[Len(new)].num_speakers = 0]_vars

\* a chunk with two speakers built their profiles, then a chunk without
\* segments was committed and the profiles are as they were
C15_Witness ==
    /\ store["a"].exists
    /\ Len(store["a"].chunks) = 2
    /\ store["a"].chunks[1].num_speakers = 2
    /\ store["a"].chunks[2].num_speakers = 0
    /\ DOMAIN store["a"].speaker_profiles = Speakers
    /\ \A s \in Speakers : store["a"].speaker_profiles[s].appearances = 1

\* positions of the handler after the fan-out has been joined
AfterJoin == {"joined", "diarized", "emotions", "analysed", "reasoned", "updating"}

\* C16: after the fan-out every one of the three tasks has run to
\* completion, whichever of them failed, and a failed task's result is the
\* module's failure result; a request that has started its analysis stages
\* leaves the handler only through update_context, which commits the chunk
\* with those results.
C16_TasksFailSoft ==
    [][\A r \in Requests :
          /\ pc'[r] \in AfterJoin =>
                \A t \in Tasks :
                    /\ req'[r].tasks[t].status = "done"
                    /\ req'[r].tasks[t].error => req'[r].tasks[t] = TaskDefault
          /\ (pc[r] \in {"tasks"} \cup AfterJoin /\ pc'[r] = "idle") =>
                /\ Commits(r)
                /\ LET c == req[r].call_id
                       new == store'[c].chunks
                   IN  /\ new[Len(new)].chunk_number = req[r].chunk_number
                       /\ new[Len(new)].ai_voice_detected
                              = req[r].tasks["ai_voice_detection"].value
                       /\ new[Len(new)].suspicious_background
                              = req[r].tasks["background_noise"].value]_vars

\* a chunk was committed whose AI-voice detection failed while the
\* transcription and the background-noise detection succeeded
C16_Witness ==
    /\ store["a"].exists
    /\ Len(history["a"]) = 1
    /\ history["a"][1].chunk_data.errors = {"ai_voice_detection"}
    /\ store["a"].chunks[1].ai_voice_detected = FALSE
    /\ store["a"].chunks[1].suspicious_background = TRUE

\* C17: when exactly one analysis module failed on a chunk, the reasoning
\* engine is still invoked, and when the engine prints a well-formed
\* verdict that verdict is the chunk's verdict.
C17_ModuleFailureLocal ==
    \A r \in Requests :
        (pc[r] \in {"reasoned", "updating"}
            /\ Cardinality(req[r].chunk_data.errors) = 1)
            => /\ req[r].engine # "none"
               /\ req[r].engine = "json" => req[r].llm.outcome = "parsed"

\* C18: every handler run for a non-empty call id ends with an analysis
\* response and with one chunk summary of the request's chunk_number
\* appended to the call's document, whichever collaborator failed.
C18_AlwaysCommits ==
    [][\A r \in Requests :
          (pc[r] # "idle" /\ pc'[r] = "idle" /\ req[r].call_id # NoCallId)
              => LET c == req[r].call_id
                     old == IF store[c].exists THEN store[c].chunks ELSE <<>>
                 IN  /\ response'.kind = "analysis"
                     /\ store'[c].exists
                     /\ Len(store'[c].chunks) = Len(old) + 1
                     /\ store'[c].chunks[Len(old) + 1].chunk_number
                            = req[r].chunk_number]_vars

C20_LoadDegradesToEmpty ==
    [][/\ \A r \in Requests :
             /\ (pc[r] = "reading" /\ pc'[r] = "loaded")
                   => /\ store' = store
                      /\ ~store[req[r].call_id].exists
                             => req'[r].previous_context = EmptyContext
             /\ Resume(r, FALSE)
                   => /\ store' = store
                      /\ req'[r].previous_context = EmptyContext
       /\ \A c \in CallIds :
             Summary(c, FALSE)
                 => /\ store' = store
                    /\ "error" \in DOMAIN response'
                    /\ response'.error = "Call not found"]_vars

\* the read of an existing document failed: the request holds the empty
\* context and the document is still there
C20_Witness ==
    \E r \in Requests :
        /\ pc[r] = "loaded"
        /\ store[req[r].call_id].exists
        /\ req[r].previous_context = EmptyContext

\* C21: clear deletes the call's document and is idempotent: a clear of an
\* absent call id (so also the second of two clears in a row) leaves the
\* store as it is and is acknowledged; after a clear the load of the next
\* request returns the empty context, and the next update starts from the
\* freshly initialised context (scam_likelihood 0, no persistent_patterns,
\* no speaker profiles, empty timeline) and commits a one-chunk document.
C21_ClearIdempotent ==
    [][/\ \A c \in CallIds :
            Clear(c) =>
                /\ ~store'[c].exists
                /\ \A d \in CallIds \ {c} : store'[d] = store[d]
                /\ (~store[c].exists => store' = store)
                /\ clear_call_data(store', c) = store'
                /\ response' = [kind |-> "cleared", call_id |-> c]
       /\ \A r \in Requests :
            /\ (pc[r] = "reading" /\ pc'[r] = "loaded"
                    /\ ~store[req[r].call_id].exists)
                   => req'[r].previous_context = EmptyContext
            /\ (pc[r] = "reasoned" /\ pc'[r] = "updating"
                    /\ ~store[req[r].call_id].exists)
                   => /\ req'[r].context.overall.scam_likelihood = 0
                      /\ req'[r].context.overall.persistent_patterns = <<>>
                      /\ req'[r].context.speaker_profiles = EmptyMap
                      /\ req'[r].context.timeline = <<>>
                      /\ req'[r].context.chunks = <<>>
            /\ (Commits(r) /\ ~store[req[r].call_id].exists)
                   => /\ Len(store'[req[r].call_id].chunks) = 1
                      /\ store'[req[r].call_id] =
                             AppendChunk(InitialContext, req[r].chunk_data, req[r].llm)
      ]_vars

\* the document holds chunk 3 alone: the call was cleared after chunk 2 was
\* committed, and the update of chunk 3 started a new document
C21_Witness ==
    /\ store["a"].exists
    /\ Len(store["a"].chunks) = 1
    /\ store["a"].chunks[1].chunk_number = 3
    /\ ~store["a"].chunks[1].scam_analysis.is_scam
    /\ store["a"].overall.scam_likelihood = 0
    /\ store["a"].overall.persistent_patterns = <<>>
    /\ response.kind = "analysis"

\* C22: summarize is read-only and idempotent: a summary step changes no
\* persisted document, and summarizing again in the state it leaves returns
\* the identical result.
C22_SummaryReadOnly ==
    [][\A c \in CallIds :
          Summary(c, TRUE) =>
              /\ store' = store
              /\ history' = history
              /\ get_call_summary(store', c, TRUE) = response'
      ]_vars

\* a summary of a call with two committed chunks has been returned
C22_Witness ==
    /\ response.kind = "summary"
    /\ "total_chunks" \in DOMAIN response
    /\ response.total_chunks = 2
    /\ Len(store[response.call_id].chunks) = 2

\* the sum of the confidences of the committed verdicts
RECURSIVE SumOf(_)
SumOf(confidences) ==
    IF confidences = <<>> THEN 0
    ELSE confidences[1] + SumOf(Tail(confidences))

\* C23: a summary of a call with committed chunks reports the number of
\* committed chunks, the numbers of chunks flagged scam, AI voice and
\* suspicious background, the exact mean of the confidences (here in
\* tenths), the set of all red flags of all chunks, and the stored overall
\* aggregate, speaker_profiles and timeline as they are stored.
C23_SummaryContents ==
    (response.kind = "summary" /\ "error" \notin DOMAIN response) =>
        LET h == history[response.call_id]
            doc == store[response.call_id]
        IN  /\ Len(h) >= 1
            /\ response.total_chunks = Len(h)
            /\ response.statistics.scam_chunks =
                   Cardinality({i \in 1..Len(h) : h[i].llm.is_scam})
            /\ response.statistics.ai_voice_detected_chunks =
                   Cardinality({i \in 1..Len(h) : h[i].chunk_data.ai_voice})
            /\ response.statistics.suspicious_background_chunks =
                   Cardinality({i \in 1..Len(h) : h[i].chunk_data.suspicious})
            /\ response.statistics.average_confidence * Len(h) =
                   10 * SumOf([i \in 1..Len(h) |-> h[i].llm.confidence])
            /\ response.red_flags =
                   UNION {{h[i].llm.red_flags[k] : k \in 1..Len(h[i].llm.red_flags)} :
                             i \in 1..Len(h)}
            /\ response.overall_assessment = doc.overall
            /\ response.speaker_analysis = doc.speaker_profiles
            /\ response.timeline = doc.timeline

\* what the summary does return (C23): the counts, the set of red flags,
\* speaker_profiles and timeline as claimed; the mean rounded to one
\* decimal; of the overall aggregate the risk level, the trend and the
\* likelihood rounded to two decimals, and not persistent_patterns
C23_SummaryReturned ==
    (response.kind = "summary" /\ "error" \notin DOMAIN response) =>
        LET h == history[response.call_id]
            doc == store[response.call_id]
        IN  /\ Len(h) >= 1
            /\ response.total_chunks = Len(h)
            /\ response.statistics.scam_chunks =
                   Cardinality({i \in 1..Len(h) : h[i].llm.is_scam})
            /\ response.statistics.ai_voice_detected_chunks =
                   Cardinality({i \in 1..Len(h) : h[i].chunk_data.ai_voice})
            /\ response.statistics.suspicious_background_chunks =
                   Cardinality({i \in 1..Len(h) : h[i].chunk_data.suspicious})
            /\ LET near == response.statistics.average_confidence * Len(h)
                               - 10 * SumOf([i \in 1..Len(h) |-> h[i].llm.confidence])
               IN  2 * near <= Len(h) /\ 2 * near >= 0 - Len(h)
            /\ response.red_flags =
                   UNION {{h[i].llm.red_flags[k] : k \in 1..Len(h[i].llm.red_flags)} :
                             i \in 1..Len(h)}
            /\ response.overall_assessment.risk_level = doc.overall.risk_level
            /\ response.overall_assessment.escalation_trend = doc.overall.escalation_trend
            /\ "persistent_patterns" \notin DOMAIN response.overall_assessment
            /\ response.speaker_analysis = doc.speaker_profiles
            /\ response.timeline = doc.timeline

\* C24: a summary of a call id without a persisted document returns the
\* "Call not found" result and nothing else, and creates no document for
\* that call id.
C24_SummaryNotFound ==
    [][\A c \in CallIds :
          (Summary(c, TRUE) /\ ~store[c].exists) =>
              /\ response' = [kind |-> "summary", call_id |-> c,
                              error |-> "Call not found"]
              /\ ~store'[c].exists
              /\ store' = store
      ]_vars

\* the summary of an unknown call id was asked for while another call has a
\* document
C24_Witness ==
    /\ response.kind = "summary"
    /\ "error" \in DOMAIN response
    /\ response.error = "Call not found"
    /\ ~store[response.call_id].exists
    /\ \E c \in CallIds : store[c].exists

\* C25: a summary of an existing call taken while an update of that call is
\* in flight is the summary of a complete document, the one that results
\* from the commits completed so far (the state before the in-flight
\* update; once that update has committed it is no longer in flight and
\* the summary is that of the state after it); it is never an error or
\* "Call not found".
C25_SummaryDuringUpdate ==
    [][\A c \in CallIds :
          (/\ Summary(c, TRUE)
           /\ store[c].exists
           /\ \E r \in Requests : InFlight(r) /\ req[r].call_id = c)
          => /\ "error" \notin DOMAIN response'
             /\ response' =
                    get_call_summary([store EXCEPT ![c] = Replay(history[c])], c, TRUE)
             /\ response'.total_chunks = Len(history[c])
      ]_vars

\* a summary of a call with one committed chunk, and a second request of
\* the same call is in flight, suspended in the read of its upload
C25_Witness ==
    /\ response.kind = "summary"
    /\ "total_chunks" \in DOMAIN response
    /\ response.total_chunks = 1
    /\ \E r \in Requests :
          /\ pc[r] = "reading"
          /\ req[r].call_id = response.call_id
          /\ req[r].overlapped = FALSE
    /\ submitted = 2

\* the feedback of a call: what load_context hands to the next request
Feedback(st, call_id) == PromptFeedback(load_context(st, call_id, TRUE))

\* C26: an update or a clear of one call id leaves the persisted document,
\* the summary and the loaded context (the source of the feedback) of every
\* other call id unchanged, whatever else is in flight.
C26_CallsIndependent ==
    [][/\ \A r \in Requests :
            Commits(r) =>
                \A b \in CallIds \ {req[r].call_id} :
                    /\ store'[b] = store[b]
                    /\ get_call_summary(store', b, TRUE) = get_call_summary(store, b, TRUE)
                    /\ Feedback(store', b) = Feedback(store, b)
       /\ \A a \in CallIds :
            Clear(a) =>
                \A b \in CallIds \ {a} :
                    /\ store'[b] = store[b]
                    /\ get_call_summary(store', b, TRUE) = get_call_summary(store, b, TRUE)
                    /\ Feedback(store', b) = Feedback(store, b)
       /\ \A b \in CallIds :
            store'[b] # store[b] =>
                \/ Clear(b)
                \/ \E r \in Requests : Commits(r) /\ req[r].call_id = b
      ]_vars

\* both calls have a one-chunk document of their own, with different
\* verdicts: the second commit left the other call's document as it was
C26_Witness ==
    /\ store["a"].exists
    /\ store["b"].exists
    /\ store["a"].overall.scam_likelihood > 0
    /\ store["b"].overall.scam_likelihood = 0
    /\ Len(store["a"].chunks) = 1
    /\ Len(store["b"].chunks) = 1
    /\ store["b"].chunks[1].scam_analysis.red_flags # <<>>

\* the verdicts of the committed chunks of a history, oldest first
Verdicts(h) ==
    [i \in 1..Len(h) |->
        [chunk_number |-> h[i].chunk_data.chunk_number,
         is_scam |-> h[i].llm.is_scam,
         confidence |-> h[i].llm.confidence,
         red_flags |-> h[i].llm.red_flags]]

\* C28: the feedback in the prompt of a chunk is made from the chunks of the
\* same call whose commit completed before, never from the chunk itself: it
\* shows the verdicts of the 3 most recently committed chunks (all of them
\* when fewer than 3 exist) and the trend derived from all of them; for the
\* first chunk of a call it shows no verdict.
C28_FeedbackFromCommitted ==
    [][\A r \in Requests :
          (pc[r] = "analysed" /\ pc'[r] = "reasoned") =>
              LET verdicts == Verdicts(history[req[r].call_id])
                  feedback == req'[r].feedback
                  shown == Min(Len(verdicts), 3)
              IN  IF verdicts = <<>>
                  THEN feedback = FirstChunk
                  ELSE /\ feedback.kind = "history"
                       /\ Len(feedback.recent) = shown
                       /\ \A i \in 1..shown :
                             feedback.recent[i] =
                                 verdicts[Len(verdicts) - shown + i]
                       /\ \A i \in 1..shown :
                             feedback.recent[i].chunk_number # req[r].chunk_number
                       /\ feedback.overall_trend = calculate_scam_trend(verdicts)
      ]_vars

\* the prompt of chunk 6 shows the verdicts of chunks 3, 4 and 5 of the five
\* committed ones
C28_Witness ==
    /\ pc["r1"] = "reasoned"
    /\ req["r1"].chunk_number = 6
    /\ req["r1"].feedback.kind = "history"
    /\ req["r1"].feedback.previous_chunks = 5
    /\ Len(req["r1"].feedback.recent) = 3
    /\ req["r1"].feedback.recent[1].chunk_number = 3
    /\ req["r1"].feedback.recent[3].chunk_number = 5
    /\ req["r1"].feedback.recent[1].is_scam
    /\ ~req["r1"].feedback.recent[3].is_scam

\* the number of scam verdicts of a history
ScamCount(h) == Cardinality({i \in 1..Len(h) : h[i].llm.is_scam})

\* C29: for every non-empty history of previous verdicts the trend of the
\* feedback is highly_suspicious when at least 70% of them are scam
\* verdicts, moderately_suspicious from 40%, potentially_suspicious from
\* 15%, and likely_clean below.
C29_TrendThresholds ==
    \A r \in Requests :
        (pc[r] \in {"reasoned", "updating"} /\ req[r].feedback.kind = "history") =>
            LET h == history[req[r].call_id]
                percent_times_len == 100 * ScamCount(h)
                trend == req[r].feedback.overall_trend.trend
            IN  /\ Len(h) >= 1
                /\ trend = "highly_suspicious" <=> percent_times_len >= 70 * Len(h)
                /\ trend = "moderately_suspicious" <=>
                       (percent_times_len >= 40 * Len(h) /\ percent_times_len < 70 * Len(h))
                /\ trend = "potentially_suspicious" <=>
                       (percent_times_len >= 15 * Len(h) /\ percent_times_len < 40 * Len(h))
                /\ trend = "likely_clean" <=> percent_times_len < 15 * Len(h)

\* exactly 70%: seven of ten previous verdicts are scam verdicts and the
\* trend is highly_suspicious
C29_Witness ==
    /\ pc["r1"] = "reasoned"
    /\ Len(history["a"]) = 10
    /\ ScamCount(history["a"]) = 7
    /\ req["r1"].feedback.kind = "history"
    /\ req["r1"].feedback.overall_trend.trend = "highly_suspicious"
    /\ req["r1"].feedback.overall_trend.scam_percentage = 700

\* the 3-point monotonicity check over the last three confidences
ClaimedPattern(confidences) ==
    LET n == Len(confidences)
    IN  IF n < 3 THEN "insufficient_data"
        ELSE IF confidences[n - 2] <= confidences[n - 1]
                    /\ confidences[n - 1] <= confidences[n]
        THEN "escalating"
        ELSE IF confidences[n - 2] >= confidences[n - 1]
                    /\ confidences[n - 1] >= confidences[n]
        THEN "de-escalating"
        ELSE "variable"

\* the escalation pattern a prompt carries, "none" when it carries none
PatternShown(feedback) ==
    IF feedback.kind = "history"
    THEN feedback.overall_trend.escalation_pattern
    ELSE "none"

\* C30: the escalation pattern of the feedback is the 3-point monotonicity
\* check over the confidences of the three most recent previous chunks, and
\* it is insufficient_data exactly when fewer than 3 previous chunks exist,
\* also when there are none.
C30_EscalationPattern ==
    \A r \in Requests :
        (pc[r] \in {"reasoned", "updating"} /\ req[r].feedback.kind # "none") =>
            LET h == history[req[r].call_id]
                confidences == [i \in 1..Len(h) |-> h[i].llm.confidence]
            IN  /\ PatternShown(req[r].feedback) = ClaimedPattern(confidences)
                /\ PatternShown(req[r].feedback) = "insufficient_data" <=> Len(h) < 3
                /\ calculate_scam_trend(Verdicts(h)).escalation_pattern
                       = ClaimedPattern(confidences)

\* the same for the histories that have at least one previous chunk
C30_PatternOfNonEmpty ==
    \A r \in Requests :
        (pc[r] \in {"reasoned", "updating"} /\ req[r].feedback.kind = "history") =>
            LET h == history[req[r].call_id]
                confidences == [i \in 1..Len(h) |-> h[i].llm.confidence]
            IN  /\ PatternShown(req[r].feedback) = ClaimedPattern(confidences)
                /\ PatternShown(req[r].feedback) = "insufficient_data" <=> Len(h) < 3

\* the temporary files of a request: its audio file, the converted audio
\* and its per-speaker clips
Artifacts(r) == TempFiles(req[r])

\* C27: while two chunks are in flight no temporary file of one is written,
\* truncated or removed by the other, no two chunks in flight have a
\* temporary file in common, and a chunk reads back from its files what it
\* wrote itself.
C27_ArtifactsPrivate ==
    [][/\ \A r \in Requests : \A o \in Requests \ {r} :
            (InFlight(r) /\ InFlight(o)) =>
                /\ Artifacts(r) \cap Artifacts(o) = {}
                /\ pc'[o] = pc[o] =>
                       \A p \in Artifacts(o) \cap DOMAIN files :
                           p \in DOMAIN files' /\ files'[p] = files[p]
       /\ \A r \in Requests :
            InFlight(r) =>
                \A p \in Artifacts(r) \cap DOMAIN files :
                    files[p] \in {r, Truncated}
       /\ \A r \in Requests :
            (pc[r] = "reading" /\ pc'[r] = "idle") =>
                req[r].audio_filename \in DOMAIN files
      ]_vars

\* ---------------------------------------------------------------------------
\* C31
\* ---------------------------------------------------------------------------

\* the event kinds of a timeline, with the chunk each belongs to
EventKinds(timeline) ==
    [i \in 1..Len(timeline) |-> <<timeline[i].chunk, timeline[i].event>>]

\* the events the claim gives the last chunk of h, from its raw inputs
ClaimedEvents(h) ==
    LET n == Len(h)
        number == h[n].chunk_data.chunk_number
    IN  (IF h[n].llm.confidence > HighConfidence
         THEN <<(<<number, "high_confidence_scam_detection">>)>> ELSE <<>>)
        \o (IF h[n].chunk_data.ai_voice
            THEN <<(<<number, "ai_voice_detected">>)>> ELSE <<>>)
        \o (IF n > 1 /\ h[n - 1].chunk_data.num_speakers # h[n].chunk_data.num_speakers
            THEN <<(<<number, "speaker_change">>)>> ELSE <<>>)

\* the timeline of a call before the commit of its next chunk
TimelineOf(doc) == IF doc.exists THEN doc.timeline ELSE <<>>

\* C31: every committed chunk appends to the timeline, in this order and
\* nothing else, high_confidence_scam_detection iff its confidence is above
\* 80, ai_voice_detected iff its AI-voice flag is set, and speaker_change iff
\* a preceding chunk exists and has a different speaker count; the timeline
\* is cut to its last 20 events only after the appends.
C31_TimelineEvents ==
    [][\A r \in Requests :
          Commits(r) =>
              LET c == req[r].call_id
                  appended == EventKinds(TimelineOf(store[c]))
                              \o ClaimedEvents(history'[c])
              IN  /\ EventKinds(store'[c].timeline) =
                         IF Len(appended) > TimelineCap
                         THEN LastN(appended, TimelineCap) ELSE appended
                  /\ Len(history'[c]) = 1 =>
                         \A i \in 1..Len(store'[c].timeline) :
                             store'[c].timeline[i].event # "speaker_change"]_vars

\* a chunk with all three events has been appended to a full timeline and the
\* oldest events were dropped, while a chunk before it, of low confidence and
\* without AI voice, added a speaker_change alone
C31_Witness ==
    /\ store["a"].exists
    /\ Len(history["a"]) > 2
    /\ Len(AllEvents(history["a"])) > TimelineCap
    /\ Len(ClaimedEvents(history["a"])) = 3
    /\ \E n \in 2..(Len(history["a"]) - 1) :
           ClaimedEvents(SubSeq(history["a"], 1, n)) =
               <<(<<history["a"][n].chunk_data.chunk_number, "speaker_change">>)>>
    /\ EventKinds(store["a"].timeline)[TimelineCap] =
           <<history["a"][Len(history["a"])].chunk_data.chunk_number, "speaker_change">>

\* ---------------------------------------------------------------------------
\* C32
\* ---------------------------------------------------------------------------

\* the stress levels, in hundredths, of the results a speaker has in h
StressSamples(h, s) ==
    LET results == SpeakerResults(h, s)
    IN  [i \in 1..Len(results) |-> results[i].stress_level]

\* 9 * 10^4 * population variance of x, y, z: 3 * (sum of squares) - (sum)^2
NineVariance(x, y, z) == 3 * (x * x + y * y + z * z) - (x + y + z) * (x + y + z)

\* the stability the claim gives a speaker with these stress samples:
\* variance above 0.2, above 0.1, or neither (the thresholds are kept as
\* 27 * 10^4 times their value)
ClaimedStability(samples) ==
    IF Len(samples) < StabilityWindow
    THEN "stable"
    ELSE LET n == Len(samples)
             v == NineVariance(samples[n - 2], samples[n - 1], samples[n])
         IN  IF 3 * v > VarianceUnstable THEN "unstable"
             ELSE IF 3 * v > VarianceVariable THEN "variable"
             ELSE "stable"

\* C32: at every commit, each speaker of the chunk's emotion results gets
\* the stability of the population variance of its last three stress
\* samples (unstable above 0.2, variable above 0.1, stable otherwise) and
\* stays 'stable' with fewer than three samples; the profiles of speakers
\* absent from the chunk are unchanged.
C32_StabilityRule ==
    [][\A r \in Requests :
          Commits(r) =>
              LET c == req[r].call_id
                  before == ProfilesOf(store[c])
                  after == store'[c].speaker_profiles
                  present == DOMAIN req[r].chunk_data.emotions
              IN  /\ DOMAIN after = DOMAIN before \cup present
                  /\ \A s \in present :
                         after[s].emotional_stability =
                             ClaimedStability(StressSamples(history'[c], s))
                  /\ \A s \in DOMAIN before \ present : after[s] = before[s]]_vars

\* one speaker has gone from stable (two samples) through unstable and
\* variable, while the other, absent from the last chunk, has two samples
C32_Witness ==
    /\ store["a"].exists
    /\ StressSamples(history["a"], "S0") = <<0, 100, 100, 50, 0>>
    /\ store["a"].speaker_profiles["S0"].emotional_stability = "variable"
    /\ "S1" \in DOMAIN store["a"].speaker_profiles
    /\ "S1" \notin DOMAIN history["a"][Len(history["a"])].chunk_data.emotions
    /\ store["a"].speaker_profiles["S1"].emotional_stability = "stable"
    /\ ClaimedStability(<<0, 100, 100>>) = "unstable"
    /\ ClaimedStability(<<100, 100, 50>>) = "stable"

\* ---------------------------------------------------------------------------
\* C33
\* ---------------------------------------------------------------------------

\* the chunks of h whose verdict lists the flag
ChunksWith(h, flag) == {i \in 1..Len(h) : InList(flag, h[i].llm.red_flags)}

\* every flag some verdict of h lists
FlagsOf(h) ==
    UNION {{h[i].llm.red_flags[j] : j \in 1..Len(h[i].llm.red_flags)} :
              i \in 1..Len(h)}

\* C33: persistent_patterns is complete and sound: it holds, without
\* duplicates, exactly the red flags that occur in the red_flags of at least
\* two of the call's committed chunks.
C33_PatternsExact ==
    \A c \in CallIds :
        store[c].exists =>
            LET patterns == store[c].overall.persistent_patterns
            IN  /\ \A i \in 1..Len(patterns) : \A j \in 1..Len(patterns) :
                       patterns[i] = patterns[j] => i = j
                /\ Patterns(store[c]) =
                       {f \in FlagsOf(history[c]) :
                           Cardinality(ChunksWith(history[c], f)) >= ConsistentCount}

\* "payment" was promoted by its second chunk while "urgency", listed twice
\* by one verdict and by no other, was not
C33_Witness ==
    /\ store["a"].exists
    /\ Patterns(store["a"]) = {"payment"}
    /\ \E i \in 1..Len(history["a"]) :
           history["a"][i].llm.red_flags = <<"urgency", "urgency">>
    /\ Cardinality(ChunksWith(history["a"], "urgency")) = 1
    /\ Cardinality(ChunksWith(history["a"], "payment")) = 2

\* ---------------------------------------------------------------------------
\* C34
\* ---------------------------------------------------------------------------

\* the outcomes of an engine run that timed out or printed no JSON object
EngineUnparsed == {"timeout", "text"}

\* the chunks of h committed with the fallback verdict of the parser
FallbackChunks(h) == {i \in 1..Len(h) : h[i].llm.outcome = "parsing_error"}

\* C34: the red flag of the fail-soft verdict is counted like any other:
\* once two chunks whose reasoning step timed out or returned unparsable
\* output are committed, "llm_parsing_error" is in persistent_patterns and
\* in the red_flags of every summary of the call.
C34_FallbackFlagPersists ==
    [][/\ \A r \in Requests :
              (Commits(r) /\ req[r].engine \in EngineUnparsed) =>
                  LET c == req[r].call_id
                  IN  /\ Len(history'[c]) \in FallbackChunks(history'[c])
                      /\ Cardinality(FallbackChunks(history'[c])) >= ConsistentCount
                             => "llm_parsing_error" \in Patterns(store'[c])
       /\ (response' # response /\ response'.kind = "summary"
           /\ "red_flags" \in DOMAIN response') =>
              (Cardinality(FallbackChunks(history[response'.call_id])) >= ConsistentCount
                  => "llm_parsing_error" \in response'.red_flags)]_vars

\* a summary returned after a timeout and an unparsable reply, with a scam
\* verdict between them
C34_Witness ==
    /\ response.kind = "summary"
    /\ "red_flags" \in DOMAIN response
    /\ Len(history["a"]) = 3
    /\ FallbackChunks(history["a"]) = {1, 3}
    /\ "llm_parsing_error" \in response.red_flags
    /\ Patterns(store["a"]) = {"llm_parsing_error"}
    /\ pc["r1"] = "idle"

\* ---------------------------------------------------------------------------
\* C35
\* ---------------------------------------------------------------------------

\* the verdicts analyze returns when the engine or the parsing failed
FailSoft == {"parsing_error", "error"}

\* the overall analysis of a call before the commit of its next chunk
LikelihoodOf(doc) == IF doc.exists THEN doc.overall.scam_likelihood ELSE 0

\* C35: a chunk committed with the fail-soft default verdict (is_scam =
\* false, confidence = 0) updates the overall analysis like a clean chunk:
\* scam_likelihood drops by 0.1, floored at 0, and risk_level is recomputed
\* from it.
C35_FailSoftDecays ==
    [][\A r \in Requests :
          (Commits(r) /\ req[r].llm.outcome \in FailSoft) =>
              LET c == req[r].call_id
                  committed == store'[c].chunks[Len(store'[c].chunks)].scam_analysis
                  before == LikelihoodOf(store[c])
                  after == store'[c].overall.scam_likelihood
                  risk == store'[c].overall.risk_level
              IN  /\ committed.is_scam = FALSE
                  /\ committed.confidence = 0
                  /\ after = IF before >= 100 THEN before - 100 ELSE 0
                  /\ risk = IF after > 800 THEN "high"
                            ELSE IF after > 500 THEN "medium" ELSE "low"]_vars

\* three scam chunks made the call high risk, and four engine failures
\* after them, of both kinds, alone took it down to low
C35_Witness ==
    /\ store["a"].exists
    /\ Len(history["a"]) = 7
    /\ Replay(SubSeq(history["a"], 1, 3)).overall.risk_level = "high"
    /\ \A i \in 4..7 : history["a"][i].llm.outcome \in FailSoft
    /\ \E i \in 4..7 : history["a"][i].llm.outcome = "error"
    /\ \E i \in 4..7 : history["a"][i].llm.outcome = "parsing_error"
    /\ store["a"].overall.scam_likelihood = 500
    /\ store["a"].overall.risk_level = "low"

\* ---------------------------------------------------------------------------
\* C36
\* ---------------------------------------------------------------------------

\* the timeline holds a high-confidence event of the chunk of this number
HighConfidenceEvent(timeline, number) ==
    \E i \in 1..Len(timeline) :
        /\ timeline[i].chunk = number
        /\ timeline[i].event = "high_confidence_scam_detection"

\* C36: the high_confidence_scam_detection event depends on the confidence
\* alone: a commit appends it exactly when the verdict's confidence is above
\* 80, whatever is_scam says, so a verdict with is_scam = false and a
\* confidence above 80 appends the event in the update that lowers
\* scam_likelihood.
C36_EventIgnoresVerdict ==
    [][\A r \in Requests :
          Commits(r) =>
              LET c == req[r].call_id
                  before == LikelihoodOf(store[c])
                  after == store'[c].overall.scam_likelihood
              IN  /\ HighConfidenceEvent(store'[c].timeline, req[r].chunk_number)
                         <=> req[r].llm.confidence > 80
                  /\ (~req[r].llm.is_scam /\ req[r].llm.confidence > 80) =>
                         /\ store'[c].timeline[Len(store'[c].timeline)].event =
                                "high_confidence_scam_detection"
                         /\ after = IF before >= 100 THEN before - 100 ELSE 0
                         /\ before > 0 => after < before]_vars

\* a scam chunk of confidence 90 raised the likelihood; the next chunk, not
\* a scam with confidence 90, lowered it and left the event
C36_Witness ==
    /\ store["a"].exists
    /\ Len(history["a"]) = 2
    /\ history["a"][1].llm.is_scam
    /\ ~history["a"][2].llm.is_scam
    /\ history["a"][2].llm.confidence = 90
    /\ store["a"].overall.scam_likelihood = 170
    /\ HighConfidenceEvent(store["a"].timeline, 2)
    /\ Len(store["a"].timeline) = 2

\* ---------------------------------------------------------------------------
\* C37
\* ---------------------------------------------------------------------------

\* the last three committed confidences of h are equal
Plateau(h) ==
    /\ Len(h) >= 3
    /\ h[Len(h) - 2].llm.confidence = h[Len(h) - 1].llm.confidence
    /\ h[Len(h) - 1].llm.confidence = h[Len(h)].llm.confidence

\* C37: the two trend signals are not equivalent: when the three most recent
\* committed confidences are equal, the escalation_pattern shown to the next
\* chunk is "escalating" (never "de-escalating"), while the stored
\* overall.escalation_trend over the same three chunks is "stable".
C37_SignalsDiffer ==
    \A r \in Requests :
        (/\ pc[r] \in {"reasoned", "updating"}
         /\ req[r].feedback.kind = "history"
         /\ Plateau(history[req[r].call_id])) =>
            /\ PatternShown(req[r].feedback) = "escalating"
            /\ store[req[r].call_id].overall.escalation_trend = "stable"
            /\ req[r].previous_context.overall.escalation_trend = "stable"

\* the fifth chunk of a call is shown "escalating" for the confidences 70,
\* 70, 70 that followed a 10, and the stored trend is "stable"
C37_Witness ==
    /\ pc["r1"] = "reasoned"
    /\ Len(history["a"]) = 4
    /\ [i \in 1..4 |-> history["a"][i].llm.confidence] = <<10, 70, 70, 70>>
    /\ PatternShown(req["r1"].feedback) = "escalating"
    /\ store["a"].overall.escalation_trend = "stable"

\* ---------------------------------------------------------------------------
\* C38
\* ---------------------------------------------------------------------------

\* the chunk numbers a load of the call shows, oldest first
LoadedNumbers(st, call_id) ==
    LET analyses == previous_llm_analyses(load_context(st, call_id, TRUE))
    IN  [i \in 1..Len(analyses) |-> analyses[i].chunk_number]

\* the numbers of the chunks committed since the last clear of the call
NumbersSinceClear(call_id) ==
    [i \in 1..Len(history[call_id]) |-> history[call_id][i].chunk_data.chunk_number]

\* C38: after a clear of a call has completed, no chunk committed before it
\* is visible again through load or summarize, also when an update of the
\* same call was in flight when the clear ran: a load shows exactly the
\* chunks committed since the last clear, and a summary counts exactly
\* those (or reports the call as not found when there are none).
C38_ClearedStaysGone ==
    /\ \A c \in CallIds :
           /\ LoadedNumbers(store, c) = NumbersSinceClear(c)
           /\ LET summary == get_call_summary(store, c, TRUE)
              IN  IF NumbersSinceClear(c) = <<>>
                  THEN "error" \in DOMAIN summary
                  ELSE /\ summary.total_chunks = Len(NumbersSinceClear(c))
                       /\ summary.latest_analysis.confidence =
                              history[c][Len(history[c])].llm.confidence
    /\ \A r \in Requests :
           (pc[r] \in {"loaded", "analysed", "reasoned", "updating"}) =>
               LET shown == previous_llm_analyses(req[r].previous_context)
                   since == NumbersSinceClear(req[r].call_id)
               IN  \A i \in 1..Len(shown) :
                       \E j \in 1..Len(since) : shown[i].chunk_number = since[j]
    /\ (response.kind = "summary" /\ "total_chunks" \in DOMAIN response) =>
           response.total_chunks <= Len(NumbersSinceClear(response.call_id))

\* when a clear runs, every update in flight is suspended in the read of its
\* upload and has not loaded a context yet
C38_ClearFindsNoLoadedUpdate ==
    [][\A c \in CallIds :
          Clear(c) => \A r \in Requests :
                          InFlight(r) => (pc[r] = "reading"
                                          /\ ~req[r].previous_context.exists)]_vars

\* chunk 1 was committed and cleared while the request of chunk 2, which had
\* arrived before chunk 1 was committed, was in flight; chunk 2 was then
\* committed, and the summary returned afterwards counts chunk 2 alone
C38_Witness ==
    /\ submitted = 2
    /\ \A r \in Requests : pc[r] = "idle"
    /\ raced["a"] = 1
    /\ LoadedNumbers(store, "a") = <<2>>
    /\ response.kind = "summary"
    /\ "total_chunks" \in DOMAIN response
    /\ response.total_chunks = 1

\* ---------------------------------------------------------------------------
\* C39
\* ---------------------------------------------------------------------------

\* C39: in every summary is_likely_scam is (scam_likelihood > 0.6) and
\* risk_level follows the thresholds 0.5 and 0.8 of the same stored
\* likelihood; hence is_likely_scam implies a medium or high risk and a high
\* risk implies is_likely_scam.
C39_LikelyScamAndRisk ==
    [][\A c \in CallIds :
          (Summary(c, TRUE) /\ store[c].exists) =>
              LET likelihood == store[c].overall.scam_likelihood
                  assessment == response'.overall_assessment
              IN  /\ assessment.is_likely_scam <=> likelihood > 600
                  /\ assessment.risk_level = "high" <=> likelihood > 800
                  /\ assessment.risk_level = "medium"
                         <=> (likelihood > 500 /\ likelihood <= 800)
                  /\ assessment.risk_level = "low" <=> likelihood <= 500
                  /\ assessment.is_likely_scam
                         => assessment.risk_level \in {"medium", "high"}
                  /\ assessment.risk_level = "high" => assessment.is_likely_scam
                  /\ 10 * assessment.scam_likelihood - likelihood \in -5..5]_vars

\* a summary with risk_level medium and is_likely_scam false: likelihood
\* 0.54 after two scam chunks of confidence 90
C39_Witness ==
    /\ response.kind = "summary"
    /\ "overall_assessment" \in DOMAIN response
    /\ response.overall_assessment.risk_level = "medium"
    /\ ~response.overall_assessment.is_likely_scam
    /\ response.overall_assessment.scam_likelihood = 54
    /\ store["a"].overall.scam_likelihood = 540
    /\ pc["r1"] = "idle"

\* ---------------------------------------------------------------------------
\* C40
\* ---------------------------------------------------------------------------

\* request r takes a step from one position to another
Moves(r, from, to) == pc[r] = from /\ pc'[r] = to

\* the step is one of a request without a call id: its arrival, or a step
\* it takes while in flight
Anonymous(r) ==
    IF pc[r] = "idle" THEN req'[r].call_id = NoCallId ELSE req[r].call_id = NoCallId

\* C40: a chunk submitted without a call id is analysed and returns a
\* result, but its load returns the empty context, so it is reasoned about
\* as a first chunk, and its update is a no-op: no step of such a request
\* creates or modifies a document.
C40_AnonymousChunks ==
    [][\A r \in Requests :
          /\ (pc'[r] # pc[r] /\ Anonymous(r)) =>
                 /\ store' = store
                 /\ history' = history
                 /\ \A c \in CacheFiles : load_context(store', c, TRUE) =
                                              load_context(store, c, TRUE)
          /\ (Moves(r, "reading", "loaded") /\ req[r].call_id = NoCallId) =>
                 ~req'[r].previous_context.exists
          /\ (Moves(r, "analysed", "reasoned") /\ req[r].call_id = NoCallId) =>
                 req'[r].feedback = FirstChunk
          /\ (Moves(r, "updating", "idle") /\ req[r].call_id = NoCallId) =>
                 /\ response'.kind = "analysis"
                 /\ response'.call_id = NoCallId
                 /\ response'.chunk_number = req[r].chunk_number
                 /\ response'.scam_analysis = req[r].llm
                 /\ ~store'[NoCallId].exists]_vars

\* chunks 1 and 3 came without a call id and chunk 2 for call "a": the
\* result of chunk 3 has been returned, and the only document is the one
\* of call "a", with chunk 2 alone
C40_Witness ==
    /\ submitted = 3
    /\ pc["r1"] = "idle"
    /\ response.kind = "analysis"
    /\ response.call_id = NoCallId
    /\ response.chunk_number = 3
    /\ response.scam_analysis.is_scam
    /\ ~store[NoCallId].exists
    /\ LoadedNumbers(store, "a") = <<2>>
    /\ history[NoCallId] = <<>>

====
